---------------------------- MODULE Spec2Model ----------------------------
(***************************************************************************)
(* Topology management and failover engine of mysql-utilities 1.6.4:       *)
(* mysql/utilities/common/topology.py (class Topology),                    *)
(* mysql/utilities/common/replication.py (classes Main, Subordinate) and   *)
(* mysql/utilities/command/rpl_admin.py (class RplCommands).               *)
(*                                                                         *)
(* A server is identified by its host:port, modelled as a number of Srv.   *)
(* The remote servers are the "world" variables; the Topology object is    *)
(* main / subordinates; a protocol run is a walk of pc through the         *)
(* statements of Topology.switchover or Topology.failover.                 *)
(***************************************************************************)
EXTENDS Integers, Sequences, FiniteSets, TLC

\* ------------------------------------------------------------------ bounds
NumServers == 4
MaxSeq == 2
MaxFaults == 1
MaxRuns == 1
MaxOps == 1

\* Topology.pingtime, the default of the "ping" option
PingTime == 3

Srv == 1..NumServers
NoSrv == 0

\* A transaction (GTID) is <<uuid, number>>; server s has server_uuid s.
Gtid == Srv \X (1..MaxSeq)

VARIABLES
    cfg,          \* per server: static settings read through queries
    up,           \* per server: the server answers (connect / is_alive)
    upstream,     \* per server: Master_Host:Master_Port of SHOW SLAVE STATUS
    running,      \* per server: replication threads running
    executed,     \* per server: @@GLOBAL.GTID_EXECUTED
    retrieved,    \* per server: Retrieved_Gtid_Set (relay log)
    read_only,    \* per server: read_only flag
    locked,       \* per server: FLUSH TABLES WITH READ LOCK held
    main,         \* Topology.main (NoSrv = None)
    subordinates, \* Topology.subordinates: list of subordinate_dict
    options,      \* Topology.options
    pc,           \* position of the running protocol
    call,         \* arguments of the running protocol
    new_main,     \* the candidate of the running protocol
    idx,          \* index of the running per-subordinate loop
    ret,          \* what the last operation returned
    snap,         \* the state when the running protocol was entered
    hist,         \* what the running protocol has done so far
    runs,         \* protocol runs started
    ops,          \* registry operations called
    faults        \* deviations from the healthy topology so far

worldVars == <<cfg, up, upstream, running, executed, retrieved, read_only, locked>>
topoVars == <<main, subordinates, options>>
runVars == <<pc, call, new_main, idx, ret, snap, hist, runs, ops, faults>>
vars == <<cfg, up, upstream, running, executed, retrieved, read_only, locked,
          main, subordinates, options, pc, call, new_main, idx, ret, snap,
          hist, runs, ops, faults>>

\* ------------------------------------------------------------- sequences
Range(s) == {s[i] : i \in DOMAIN s}

\* the sequences without repetition over S of length at most n
SeqsOver(S, n) ==
    {q \in UNION {[1..k -> S] : k \in 0..n} :
        \A i, j \in DOMAIN q : i # j => q[i] # q[j]}

RemoveAt(s, i) == SubSeq(s, 1, i - 1) \o SubSeq(s, i + 1, Len(s))

\* --------------------------------------------------------- server handles
\* subordinate_dict of Topology._connect_to_servers / discover_subordinates
SubordinateDict(h, inst, disc) == [host |-> h, instance |-> inst, discovered |-> disc]

\* Server.is_alive() on the handle of a subordinate_dict
IsAlive(d) == d.instance /\ up[d.host]

\* the guard "subordinate is None or not subordinate.is_alive()" is false
Reachable(d) == IsAlive(d)

Hosts(subs) == {subs[i].host : i \in DOMAIN subs}

\* ------------------------------------------------------------ GTID sets
\* Subordinate.get_executed_gtid_set: Executed_Gtid_Set of SHOW SLAVE STATUS,
\* '' when the server is not acting as a subordinate
GetExecutedGtidSet(s) == IF upstream[s] = NoSrv THEN {} ELSE executed[s]

\* Subordinate.get_retrieved_gtid_set
GetRetrievedGtidSet(s) == IF upstream[s] = NoSrv THEN {} ELSE retrieved[s]

\* SELECT GTID_SUBTRACT(set, @@GLOBAL.GTID_EXECUTED) run on server o
GtidSubtractToExecuted(set, o) == set \ executed[o]

\* the uuid:interval groups of a GTID set string, as <<uuid, numbers>>
Groups(set) == {<<u, {g[2] : g \in {h \in set : h[1] = u}}>> : u \in {g[1] : g \in set}}

\* the transactions of a set of groups
Expand(groups) == UNION {{<<gr[1], n>> : n \in gr[2]} : gr \in groups}

\* the uuid a GTID set string starts with (groups are listed in uuid order)
FirstUuid(set) == CHOOSE u \in {g[1] : g \in set} : \A g \in set : u <= g[1]

\* lines 1136-1140: the whole row is taken unless it starts with main_uuid
ErrantSet(set, main_uuid) ==
    IF set # {} /\ FirstUuid(set) # main_uuid THEN Groups(set) ELSE {}

\* lines 1102-1106, 1116-1118: the uuid of the main, from the main or from
\* the Master_UUID of the subordinate's status
MainUuidFor(s) == IF main # NoSrv THEN main ELSE upstream[s]

RECURSIVE ErrantInner(_, _, _, _)
\* lines 1120-1148: the loop over the other subordinates, from position j,
\* with the break on an empty difference
ErrantInner(subs, i, j, acc) ==
    IF j > Len(subs) THEN acc
    ELSE IF subs[j].host = subs[i].host THEN ErrantInner(subs, i, j + 1, acc)
    ELSE IF ~Reachable(subs[j]) THEN ErrantInner(subs, i, j + 1, acc)
    ELSE LET errant_set == ErrantSet(
                 GtidSubtractToExecuted(GetExecutedGtidSet(subs[i].host), subs[j].host),
                 MainUuidFor(subs[i].host))
         IN  IF errant_set = {} THEN acc
             ELSE ErrantInner(subs, i, j + 1, acc \cup errant_set)

RECURSIVE ErrantOuter(_, _)
ErrantOuter(subs, i) ==
    IF i > Len(subs) THEN <<>>
    ELSE IF ~Reachable(subs[i]) THEN ErrantOuter(subs, i + 1)
    ELSE LET subordinate_set == ErrantInner(subs, i, 1, {})
         IN  IF subordinate_set # {}
             THEN <<[host |-> subs[i].host, set |-> subordinate_set]>>
                      \o ErrantOuter(subs, i + 1)
             ELSE ErrantOuter(subs, i + 1)

\* Topology.find_errant_transactions on a subordinates list
FindErrantTransactions(subs) == ErrantOuter(subs, 1)

\* ---------------------------------------------------------- eligibility
\* Subordinate.is_configured_for_main(main)
IsConfiguredForMain(s, m) == upstream[s] # NoSrv /\ upstream[s] = m

\* Topology._check_filters(main, subordinate): the two get_binlog_exceptions
\* lists hold at most one row; cfg.filt = 0 is the empty list
CheckFilters(m, s) ==
    LET m_len == IF cfg[m].filt = 0 THEN 0 ELSE 1
        s_len == IF cfg[s].filt = 0 THEN 0 ELSE 1
    IN  IF m_len # s_len THEN FALSE
        ELSE IF m_len = 0 THEN TRUE
        ELSE cfg[m].filt = cfg[s].filt

Eligible == [ok |-> TRUE, check |-> ""]
Failed(name) == [ok |-> FALSE, check |-> name]
\* a UtilError leaving the method
Raised == [ok |-> FALSE, check |-> "RAISE"]

\* lines 765-798: the replication user check
CheckRplUser(s) ==
    IF cfg[s].rpl = "error" /\ ~options.rpl_user THEN Raised
    ELSE IF cfg[s].rpl = "missing" /\ ~options.force THEN Failed("RPL_USER")
    ELSE Eligible

\* binary logging is looked at only when force is set
CheckBinlogUnderForce(s, gtid_enabled) ==
    IF options.force /\ ~cfg[s].binlog THEN Failed("BINLOG") ELSE CheckRplUser(s)

\* lines 754-763
CheckBinlog(s, gtid_enabled) ==
    IF ~gtid_enabled /\ ~cfg[s].binlog THEN Failed("BINLOG") ELSE CheckRplUser(s)

\* lines 743-752
CheckFilterRules(s, check_main, gtid_enabled) ==
    IF ~options.force /\ check_main /\ ~CheckFilters(main, s) THEN Failed("FILTERS")
    ELSE CheckBinlog(s, gtid_enabled)

\* lines 731-741: Replication.check_subordinate_delay raises when the
\* subordinate is stopped or is no subordinate
CheckBehind(s, check_main, gtid_enabled) ==
    IF ~gtid_enabled /\ check_main
    THEN IF ~up[main] \/ upstream[s] = NoSrv \/ ~running[s] THEN Raised
         ELSE IF cfg[s].behind THEN Failed("BEHIND")
         ELSE CheckFilterRules(s, check_main, gtid_enabled)
    ELSE CheckFilterRules(s, check_main, gtid_enabled)

\* lines 720-729: gtid_enabled is the candidate's own GTID mode
CheckGtid(s, check_main, gtid_enabled) ==
    IF gtid_enabled /\ ~cfg[s].gtid THEN Failed("GTID")
    ELSE CheckBehind(s, check_main, gtid_enabled)

\* Topology._check_candidate_eligibility(host, port, subordinate, check_main)
CheckCandidateEligibility(s, check_main) ==
    LET gtid_enabled == cfg[s].gtid
    IN  IF check_main /\ ~up[s] THEN Failed("CONNECTED")
        ELSE IF check_main /\ ~IsConfiguredForMain(s, main) THEN Failed("CONNECTED")
        ELSE CheckGtid(s, check_main, gtid_enabled)

\* ------------------------------------------------- find_best_subordinate
BestNone == [kind |-> "none", host |-> NoSrv, listed |-> FALSE]
BestRaise == [kind |-> "raise", host |-> NoSrv, listed |-> FALSE]
\* a subordinate_dict: built by connect_candidate, or the one of the list
BestDict(h, l) == [kind |-> "dict", host |-> h, listed |-> l]

RECURSIVE BestOfSubordinates(_, _, _)
\* lines 2090-2109
BestOfSubordinates(subs, i, check_main) ==
    IF i > Len(subs) THEN BestNone
    ELSE IF ~Reachable(subs[i]) THEN BestOfSubordinates(subs, i + 1, check_main)
    ELSE IF CheckCandidateEligibility(subs[i].host, check_main).ok
         THEN BestDict(subs[i].host, TRUE)
    ELSE BestOfSubordinates(subs, i + 1, check_main)

RECURSIVE BestOfCandidates(_, _, _, _)
\* lines 2065-2088: connect_candidate and the eligibility check are not
\* guarded, a UtilError leaves find_best_subordinate
BestOfCandidates(candidates, i, check_main, strict) ==
    IF i > Len(candidates)
    THEN IF strict THEN BestNone ELSE BestOfSubordinates(subordinates, 1, check_main)
    ELSE IF ~up[candidates[i]] THEN BestRaise
    ELSE LET subordinate_ok == CheckCandidateEligibility(candidates[i], check_main)
         IN  IF subordinate_ok = Raised THEN BestRaise
             ELSE IF subordinate_ok.ok THEN BestDict(candidates[i], FALSE)
             ELSE BestOfCandidates(candidates, i + 1, check_main, strict)

\* the candidate list is not looked at
FindBestIgnoringCandidates(candidates, check_main, strict) ==
    IF strict THEN BestNone ELSE BestOfSubordinates(subordinates, 1, check_main)

\* Topology.find_best_subordinate(candidates, check_main, strict)
FindBestSubordinate(candidates, check_main, strict) ==
    BestOfCandidates(candidates, 1, check_main, strict)

\* ------------------------------------------------------- initial states
\* The healthy topology: main 1, every other server a subordinate of 1 that
\* has applied all of the main's transactions. The registry was built by
\* Topology.__init__ (_connect_to_servers, skip_conn_err) from the
\* configured subordinates. An initial state deviates from it in at most
\* MaxFaults places.
FaultKinds == {"down", "noinst", "unlisted", "gtidflip", "oldver", "nobinlog",
               "rplmissing", "rplerror", "filt", "behind", "file", "notsub",
               "stopped", "lagrelay", "lagio", "errant", "discovered"}

\* the deviations that concern a subordinate only
SubOnly == {"noinst", "unlisted", "notsub", "stopped", "lagrelay", "lagio",
            "errant", "behind", "discovered"}

Faults == {f \in Srv \X FaultKinds : f[1] = 1 => f[2] \notin SubOnly}

RECURSIVE SetsUpTo(_, _)
\* the subsets of S with at most n elements
SetsUpTo(S, n) ==
    IF n = 0 THEN {{}}
    ELSE LET smaller == SetsUpTo(S, n - 1)
         IN  smaller \cup {p \cup {x} : p \in smaller, x \in S}

FaultSets == SetsUpTo(Faults, MaxFaults)

MainGtids == {<<1, n>> : n \in 1..MaxSeq}

InitCfg(F, gtid_topology) ==
    [s \in Srv |->
        [gtid    |-> IF <<s, "gtidflip">> \in F THEN ~gtid_topology ELSE gtid_topology,
         newver  |-> ~(<<s, "oldver">> \in F /\ ~gtid_topology /\ <<s, "gtidflip">> \notin F),
         binlog  |-> <<s, "nobinlog">> \notin F,
         rpl     |-> IF <<s, "rplmissing">> \in F THEN "missing"
                     ELSE IF <<s, "rplerror">> \in F THEN "error" ELSE "ok",
         filt    |-> IF <<s, "filt">> \in F THEN 1 ELSE 0,
         behind  |-> <<s, "behind">> \in F,
         table   |-> <<s, "file">> \notin F]]

InitExecuted(F) ==
    [s \in Srv |->
        (IF <<s, "lagrelay">> \in F \/ <<s, "lagio">> \in F
         THEN MainGtids \ {<<1, MaxSeq>>} ELSE MainGtids)
        \cup (IF <<s, "errant">> \in F THEN {<<s, 1>>} ELSE {})]

InitRetrieved(F) ==
    [s \in Srv |->
        IF s = 1 THEN {}
        ELSE IF <<s, "lagio">> \in F THEN MainGtids \ {<<1, MaxSeq>>} ELSE MainGtids]

\* Topology._connect_to_servers: one subordinate_dict per configured
\* subordinate, in configuration order, instance None when the connection
\* failed; a record is marked discovered when discover_subordinates added it
InitSubordinates(F) ==
    LET configured == SelectSeq([i \in 1..(NumServers - 1) |-> i + 1],
                                LAMBDA s : <<s, "unlisted">> \notin F)
    IN  [i \in DOMAIN configured |->
            SubordinateDict(configured[i], <<configured[i], "noinst">> \notin F,
                            <<configured[i], "discovered">> \in F)]

\* force, demote, pedantic: the options of these names; rpl_user: the
\* rpl_user option is given. script_threshold is set.
Options == [force : BOOLEAN, demote : BOOLEAN, pedantic : BOOLEAN,
            rpl_user : BOOLEAN]

NoCall == [op |-> "none", candidate |-> NoSrv, candidates |-> <<>>,
           strict |-> FALSE, stop_on_error |-> FALSE, check_main |-> FALSE]
NoRet == [kind |-> "none", val |-> NoSrv]
NoHist == [abort |-> "", swapped |-> FALSE, user |-> FALSE]

Snapshot == [main |-> main, subordinates |-> subordinates, upstream |-> upstream,
             running |-> running, read_only |-> read_only, locked |-> locked]
\* no protocol is running
NoSnapshot == [main |-> NoSrv, subordinates |-> <<>>,
               upstream |-> [s \in Srv |-> NoSrv],
               running |-> [s \in Srv |-> FALSE],
               read_only |-> [s \in Srv |-> FALSE],
               locked |-> [s \in Srv |-> FALSE]]

InitWorld(F, gtid_topology) ==
    /\ cfg = InitCfg(F, gtid_topology)
    /\ up = [s \in Srv |-> <<s, "down">> \notin F]
    /\ upstream = [s \in Srv |-> IF s = 1 \/ <<s, "notsub">> \in F THEN NoSrv ELSE 1]
    /\ running = [s \in Srv |-> s # 1 /\ <<s, "notsub">> \notin F /\ <<s, "stopped">> \notin F]
    /\ executed = InitExecuted(F)
    /\ retrieved = InitRetrieved(F)
    /\ read_only = [s \in Srv |-> FALSE]
    /\ locked = [s \in Srv |-> FALSE]

InitRun ==
    /\ pc = "idle"
    /\ call = NoCall
    /\ new_main = BestNone
    /\ idx = 0
    /\ ret = NoRet
    /\ snap = NoSnapshot
    /\ hist = NoHist
    /\ runs = 0
    /\ ops = 0

Init ==
    /\ \E F \in FaultSets, gtid_topology \in BOOLEAN :
          /\ InitWorld(F, gtid_topology)
          /\ subordinates = InitSubordinates(F)
          /\ faults = Cardinality(F)
    /\ main = 1
    /\ options \in Options
    /\ InitRun

\* ------------------------------------------------------ registry helpers
RECURSIVE RemoveSubordinateFrom(_, _, _)
\* Topology.remove_subordinate: the first record with a live instance and
\* the given host:port is dropped; a record whose instance is None is kept
RemoveSubordinateFrom(subs, h, i) ==
    IF i > Len(subs) THEN subs
    ELSE IF subs[i].instance /\ subs[i].host = h THEN RemoveAt(subs, i)
    ELSE RemoveSubordinateFrom(subs, h, i + 1)

RemoveSubordinate(subs, h) == RemoveSubordinateFrom(subs, h, 1)

\* the records without an instance are dropped too
RemoveDiscoveredAndDead(subs) ==
    SelectSeq(subs, LAMBDA d : ~d.discovered /\ d.instance)

\* Topology.remove_discovered_subordinates
RemoveDiscoveredSubordinates(subs) == SelectSeq(subs, LAMBDA d : ~d.discovered)

\* Topology.gtid_enabled
GtidEnabled ==
    /\ main # NoSrv => cfg[main].gtid
    /\ \A i \in DOMAIN subordinates :
          Reachable(subordinates[i]) => cfg[subordinates[i].host].gtid

\* Topology.get_servers_with_gtid_not_on
ServersWithGtidNotOn ==
    {s \in Srv : /\ ~cfg[s].gtid
                 /\ \/ s = main
                    \/ \E i \in DOMAIN subordinates :
                          subordinates[i].host = s /\ Reachable(subordinates[i])}

\* Topology.check_main_info_type("TABLE"): show_server_variable is sent to
\* every record that has an instance, without an is_alive check
CheckMainInfoType ==
    IF \E i \in DOMAIN subordinates :
          subordinates[i].instance /\ ~up[subordinates[i].host]
    THEN "raise"
    ELSE IF \A i \in DOMAIN subordinates :
               subordinates[i].instance => cfg[subordinates[i].host].table
    THEN "table" ELSE "file"

\* ------------------------------------------------------------ the world
\* a server stops answering while a protocol runs; the handles to it are
\* dead from then on (a server that is down before the run is a deviation
\* of the initial state)
ServerDown(s) ==
    /\ pc \notin {"idle", "done", "aborted"}
    /\ up[s]
    /\ faults < MaxFaults
    /\ faults' = faults + 1
    /\ up' = [up EXCEPT ![s] = FALSE]
    /\ UNCHANGED <<cfg, upstream, running, executed, retrieved, read_only, locked>>
    /\ UNCHANGED topoVars
    /\ UNCHANGED <<pc, call, new_main, idx, ret, snap, hist, runs, ops>>

\* what WAIT_UNTIL_SQL_THREAD_AFTER_GTIDS(gtids, timeout) on s can reach
\* before the timeout: its relay log and what its upstream can send
Obtainable(s) ==
    executed[s] \cup
    (IF running[s] /\ upstream[s] # NoSrv
     THEN retrieved[s] \cup (IF up[upstream[s]] THEN executed[upstream[s]] ELSE {})
     ELSE {})

\* the wait returned >= 0: the transactions are applied
CanCatchUp(s, gtids) == gtids \subseteq Obtainable(s)
\* the wait returned -1 (timeout) or NULL
CanTimeOut(s, gtids) == ~(gtids \subseteq executed[s])

\* ------------------------------------------------------- protocol exits
Abort(kind, retkind) ==
    /\ pc' = "aborted"
    /\ hist' = [hist EXCEPT !.abort = kind]
    /\ ret' = [kind |-> retkind, val |-> NoSrv]
    /\ UNCHANGED <<call, new_main, idx, snap, runs, ops, faults>>

Goto(label) ==
    /\ pc' = label
    /\ UNCHANGED <<call, new_main, ret, snap, hist, runs, ops, faults>>

\* the run was started by RplCommands.execute_command ('switchover',
\* 'failover'); otherwise by run_auto_failover
IsCommand == call.op = "switchover" \/ (call.op = "failover" /\ call.stop_on_error)

\* what the caller of the protocol hands on. execute_command (lines
\* 653-674) drops the value returned by _switchover and _failover and
\* returns True unless an exception passes through it; run_auto_failover
\* (lines 972-978) raises when failover returned a false value.
CallerResult ==
    IF ret.kind = "raise" THEN "raise"
    ELSE IF IsCommand THEN "true"
    ELSE IF ret.kind = "true" THEN "true" ELSE "raise"

\* the protocol returned to its caller, and the caller to its own; the
\* Topology object lives on
Return ==
    /\ pc \in {"done", "aborted"}
    /\ pc' = "idle"
    /\ call' = NoCall
    /\ new_main' = BestNone
    /\ idx' = 0
    /\ snap' = NoSnapshot
    /\ hist' = NoHist
    /\ ret' = [kind |-> CallerResult, val |-> NoSrv]
    /\ UNCHANGED <<runs, ops, faults>>
    /\ UNCHANGED worldVars
    /\ UNCHANGED topoVars

\* RplCommands._switchover without the errant transactions check of lines
\* 464-483
SwitchoverCmdUnchecked(c) ==
    /\ pc = "idle"
    /\ runs < MaxRuns
    /\ main # NoSrv
    /\ c # main
    /\ runs' = runs + 1
    /\ UNCHANGED <<ops, faults>>
    /\ call' = [NoCall EXCEPT !.op = "switchover", !.candidate = c]
    /\ snap' = Snapshot
    /\ new_main' = BestNone
    /\ idx' = 0
    /\ IF ~options.rpl_user /\ CheckMainInfoType # "table"
       THEN /\ pc' = "aborted"
            /\ hist' = [NoHist EXCEPT !.abort = "infotype"]
            /\ ret' = [kind |-> "raise", val |-> NoSrv]
       ELSE /\ pc' = "s_prereq"
            /\ hist' = NoHist
            /\ ret' = NoRet
    /\ UNCHANGED worldVars
    /\ UNCHANGED topoVars

\* ---------------------------------------------------------- switchover
\* RplCommands._switchover, lines 437-488: the checks before
\* Topology.switchover is called
SwitchoverCmd(c) ==
    /\ pc = "idle"
    /\ runs < MaxRuns
    /\ main # NoSrv
    /\ c # main
    /\ runs' = runs + 1
    /\ UNCHANGED <<ops, faults>>
    /\ call' = [NoCall EXCEPT !.op = "switchover", !.candidate = c]
    /\ snap' = Snapshot
    /\ new_main' = BestNone
    /\ idx' = 0
    /\ IF ~options.rpl_user /\ CheckMainInfoType # "table"
       THEN /\ pc' = "aborted"
            /\ hist' = [NoHist EXCEPT !.abort = "infotype"]
            /\ ret' = [kind |-> "raise", val |-> NoSrv]
       ELSE IF GtidEnabled /\ FindErrantTransactions(subordinates) # <<>>
               /\ ~options.force
       THEN /\ pc' = "aborted"
            /\ hist' = [NoHist EXCEPT !.abort = "errant"]
            /\ ret' = [kind |-> "raise", val |-> NoSrv]
       ELSE /\ pc' = "s_prereq"
            /\ hist' = NoHist
            /\ ret' = NoRet
    /\ UNCHANGED worldVars
    /\ UNCHANGED topoVars

\* Topology._check_switchover_prerequisites(candidate): "ok", or the
\* UtilError it raises
CheckSwitchoverPrerequisites(c) ==
    IF cfg[main].gtid /\ \E i \in DOMAIN subordinates :
           Reachable(subordinates[i]) /\ ~cfg[subordinates[i].host].gtid
    THEN "gtid"
    ELSE IF ~CheckCandidateEligibility(c, TRUE).ok THEN "candidate"
    ELSE "ok"

\* lines 1765-1781
SubordinatesConfigured ==
    \A i \in DOMAIN subordinates :
        Reachable(subordinates[i]) => IsConfiguredForMain(subordinates[i].host, main)

\* Topology.switchover, lines 1751-1865: every check made before the first
\* change; mismatch is the outcome of the comparison of --rpl-user with the
\* user and password hash of the candidate (main_info_repository = FILE);
\* then the replication user is updated on the main and created on the
\* candidate (hist.user)
SwitchoverPrerequisites(mismatch) ==
    /\ pc = "s_prereq"
    /\ LET c == call.candidate
           prereq == IF up[c] THEN CheckSwitchoverPrerequisites(c) ELSE "ok"
       IN  IF ~up[c] THEN Abort("error", "raise")
           ELSE IF prereq # "ok" /\ ~options.force THEN Abort(prereq, "none")
           ELSE IF ~SubordinatesConfigured /\ ~options.force
                THEN Abort("notconfigured", "raise")
           ELSE IF ~options.rpl_user /\ cfg[c].rpl = "error" THEN Abort("error", "raise")
           ELSE IF CheckMainInfoType = "raise" THEN Abort("error", "raise")
           ELSE IF CheckMainInfoType = "file" /\ ~options.force /\ mismatch
                THEN Abort("rpluser", "none")
           ELSE IF CheckMainInfoType = "file" /\ ~up[main] THEN Abort("error", "raise")
           ELSE /\ pc' = "s_before"
                /\ hist' = [hist EXCEPT !.user = TRUE]
                /\ idx' = 0
                /\ UNCHANGED <<call, new_main, ret, snap, runs, ops, faults>>
    /\ UNCHANGED worldVars
    /\ UNCHANGED topoVars

\* Topology.run_script: failed is "the exit code reached script_threshold"
RunScript(failed, next) ==
    IF failed
    THEN Abort("hook", "raise")
    ELSE /\ Goto(next)
         /\ idx' = 1

\* lines 1867-1870
SwitchoverBefore(failed) ==
    /\ pc = "s_before"
    /\ RunScript(failed, "s_fence")
    /\ UNCHANGED worldVars
    /\ UNCHANGED topoVars

\* the configuration check of the subordinates made after the write fence
SwitchoverFenceThenCheck ==
    /\ pc = "s_fence"
    /\ locked' = [locked EXCEPT ![main] = TRUE]
    /\ read_only' = [read_only EXCEPT ![main] = TRUE]
    /\ IF SubordinatesConfigured
       THEN /\ Goto("s_wait")
            /\ idx' = 1
       ELSE Abort("notconfigured", "raise")
    /\ UNCHANGED <<cfg, up, upstream, running, executed, retrieved>>
    /\ UNCHANGED topoVars

\* lines 1872-1886: Lock(self.main) and set_read_only(True)
SwitchoverFence ==
    /\ pc = "s_fence"
    /\ IF ~up[main]
       THEN /\ Abort("error", "raise")
            /\ UNCHANGED <<read_only, locked>>
       ELSE /\ locked' = [locked EXCEPT ![main] = TRUE]
            /\ read_only' = [read_only EXCEPT ![main] = TRUE]
            /\ Goto("s_wait")
            /\ idx' = 1
    /\ UNCHANGED <<cfg, up, upstream, running, executed, retrieved>>
    /\ UNCHANGED topoVars

\* the loop of the waits without its advance to the next subordinate
SwitchoverWaitAgain(caught) ==
    /\ pc = "s_wait"
    /\ idx <= Len(subordinates)
    /\ LET d == subordinates[idx]
           s == d.host
           target == executed[main]
       IN  IF ~up[main]
           THEN /\ Abort("error", "raise")
                /\ UNCHANGED <<executed, retrieved>>
           ELSE IF ~Reachable(d)
           THEN /\ Goto("s_wait")
                /\ idx' = idx
                /\ UNCHANGED <<executed, retrieved>>
           ELSE /\ IF cfg[main].gtid
                   THEN IF caught
                        THEN /\ CanCatchUp(s, target)
                             /\ executed' = [executed EXCEPT ![s] = @ \cup target]
                             /\ retrieved' = [retrieved EXCEPT ![s] = @ \cup target]
                        ELSE /\ CanTimeOut(s, target)
                             /\ UNCHANGED <<executed, retrieved>>
                   ELSE /\ caught = ~cfg[s].behind
                        /\ UNCHANGED <<executed, retrieved>>
                /\ IF ~caught /\ ~options.force
                   THEN Abort("timeout", "raise")
                   ELSE /\ Goto("s_wait")
                        /\ idx' = idx
    /\ UNCHANGED <<cfg, up, upstream, running, read_only, locked>>
    /\ UNCHANGED topoVars

\* lines 1888-1914, one subordinate: caught is the result of
\* wait_for_subordinate_gtid / wait_for_subordinate
SwitchoverWait(caught) ==
    /\ pc = "s_wait"
    /\ idx <= Len(subordinates)
    /\ LET d == subordinates[idx]
           s == d.host
           target == executed[main]
       IN  IF ~up[main]
           THEN /\ Abort("error", "raise")
                /\ UNCHANGED <<executed, retrieved>>
           ELSE IF ~Reachable(d)
           THEN /\ Goto("s_wait")
                /\ idx' = idx + 1
                /\ UNCHANGED <<executed, retrieved>>
           ELSE /\ IF cfg[main].gtid
                   THEN IF caught
                        THEN /\ CanCatchUp(s, target)
                             /\ executed' = [executed EXCEPT ![s] = @ \cup target]
                             /\ retrieved' = [retrieved EXCEPT ![s] = @ \cup target]
                        ELSE /\ CanTimeOut(s, target)
                             /\ UNCHANGED <<executed, retrieved>>
                   ELSE /\ caught = ~cfg[s].behind
                        /\ UNCHANGED <<executed, retrieved>>
                /\ IF ~caught /\ ~options.force
                   THEN Abort("timeout", "raise")
                   ELSE /\ Goto("s_wait")
                        /\ idx' = idx + 1
    /\ UNCHANGED <<cfg, up, upstream, running, read_only, locked>>
    /\ UNCHANGED topoVars

\* the waits over, the fence is released without stopping the subordinates
SwitchoverWaitDoneUnfence ==
    /\ pc = "s_wait"
    /\ idx > Len(subordinates)
    /\ Goto("s_unfence")
    /\ idx' = 1
    /\ UNCHANGED worldVars
    /\ UNCHANGED topoVars

SwitchoverWaitDone ==
    /\ pc = "s_wait"
    /\ idx > Len(subordinates)
    /\ Goto("s_stop")
    /\ idx' = 1
    /\ UNCHANGED worldVars
    /\ UNCHANGED topoVars

\* Topology.run_cmd_on_subordinates, one subordinate: STOP SLAVE / START
\* SLAVE on a reachable subordinate; START SLAVE fails on a server that has
\* no upstream, and the UtilError is reported as a warning
RunCmdOnSubordinate(command, label, next) ==
    /\ pc = label
    /\ IF idx > Len(subordinates)
       THEN /\ Goto(next)
            /\ idx' = 1
            /\ UNCHANGED running
       ELSE /\ Goto(label)
            /\ idx' = idx + 1
            /\ LET d == subordinates[idx]
               IN  IF ~Reachable(d) THEN UNCHANGED running
                   ELSE IF command = "stop"
                        THEN running' = [running EXCEPT ![d.host] = FALSE]
                   ELSE running' = [running EXCEPT ![d.host] = upstream[d.host] # NoSrv]
    /\ UNCHANGED <<cfg, up, upstream, executed, retrieved, read_only, locked>>
    /\ UNCHANGED topoVars

\* lines 1916-1918
SwitchoverStop == RunCmdOnSubordinate("stop", "s_stop", "s_unfence")

\* the statement that is to release the fence leaves it in place
SwitchoverUnfenceKept ==
    /\ pc = "s_unfence"
    /\ Goto("s_demote")
    /\ idx' = 1
    /\ UNCHANGED worldVars
    /\ UNCHANGED topoVars

\* lines 1920-1922
SwitchoverUnfence ==
    /\ pc = "s_unfence"
    /\ IF ~up[main]
       THEN /\ Abort("error", "raise")
            /\ UNCHANGED <<read_only, locked>>
       ELSE /\ read_only' = [read_only EXCEPT ![main] = FALSE]
            /\ locked' = [locked EXCEPT ![main] = FALSE]
            /\ Goto("s_demote")
            /\ idx' = 1
    /\ UNCHANGED <<cfg, up, upstream, running, executed, retrieved>>
    /\ UNCHANGED topoVars

\* lines 1924-1937: the old main, stopped, joins the subordinates list
SwitchoverDemote ==
    /\ pc = "s_demote"
    /\ IF ~options.demote
       THEN /\ Goto("s_swap")
            /\ idx' = 1
            /\ UNCHANGED <<running, subordinates>>
       ELSE IF ~up[main]
       THEN /\ Abort("error", "raise")
            /\ UNCHANGED <<running, subordinates>>
       ELSE /\ running' = [running EXCEPT ![main] = FALSE]
            /\ subordinates' = Append(subordinates, SubordinateDict(main, TRUE, FALSE))
            /\ Goto("s_swap")
            /\ idx' = 1
    /\ UNCHANGED <<cfg, up, upstream, executed, retrieved, read_only, locked>>
    /\ UNCHANGED <<main, options>>

\* lines 1939-1946: the role swap in the Topology object
SwitchoverSwap ==
    /\ pc = "s_swap"
    /\ main' = call.candidate
    /\ subordinates' = RemoveSubordinate(subordinates, call.candidate)
    /\ pc' = "s_reset"
    /\ hist' = [hist EXCEPT !.swapped = TRUE]
    /\ UNCHANGED <<call, new_main, idx, ret, snap, runs, ops, faults>>
    /\ UNCHANGED worldVars
    /\ UNCHANGED options

\* RESET SLAVE ALL replaced by a statement that keeps the upstream
UpstreamAfterResetKept(s, forgets) == upstream[s]

\* lines 1715-1717 of Subordinate.reset_all: the upstream of s after RESET
\* SLAVE ALL, or after RESET SLAVE on a server older than 5.5.16, which
\* drops the connection parameters (forgets: 5.1 and earlier) or retains
\* them (5.5.0 to 5.5.15)
UpstreamAfterReset(s, forgets) ==
    IF cfg[s].newver \/ forgets THEN NoSrv ELSE upstream[s]

\* Subordinate.reset_all: STOP SLAVE, then RESET SLAVE ALL, or RESET SLAVE
\* on a server older than 5.5.16; RESET SLAVE leaves the connection
\* parameters to the server (forgets: they are gone after it)
ResetAll(s, forgets) ==
    /\ running' = [running EXCEPT ![s] = FALSE]
    /\ retrieved' = [retrieved EXCEPT ![s] = {}]
    /\ upstream' = [upstream EXCEPT ![s] = UpstreamAfterReset(s, forgets)]

\* lines 1948-1954: reset_all and get_status on the new main
SwitchoverReset(forgets) ==
    /\ pc = "s_reset"
    /\ IF ~up[main]
       THEN /\ Abort("error", "raise")
            /\ UNCHANGED <<upstream, running, retrieved>>
       ELSE /\ ResetAll(main, forgets)
            /\ Goto("s_switch")
            /\ idx' = 1
    /\ UNCHANGED <<cfg, up, executed, read_only, locked>>
    /\ UNCHANGED topoVars

\* the CHANGE MASTER statement of Subordinate.make_change_main, executed:
\* the server has a new upstream and its relay log is purged
ChangeMain(s, m) ==
    /\ upstream' = [upstream EXCEPT ![s] = m]
    /\ retrieved' = [retrieved EXCEPT ![s] = {}]

\* lines 1981-1997, one subordinate
SwitchoverSwitch ==
    /\ pc = "s_switch"
    /\ IF idx > Len(subordinates)
       THEN /\ Goto("s_start")
            /\ idx' = 1
            /\ UNCHANGED <<upstream, retrieved>>
       ELSE /\ Goto("s_switch")
            /\ idx' = idx + 1
            /\ IF Reachable(subordinates[idx])
               THEN ChangeMain(subordinates[idx].host, main)
               ELSE UNCHANGED <<upstream, retrieved>>
    /\ UNCHANGED <<cfg, up, running, executed, read_only, locked>>
    /\ UNCHANGED topoVars

\* lines 1999-2001
SwitchoverStart == RunCmdOnSubordinate("start", "s_start", "s_after")

\* lines 2003-2005
SwitchoverAfter(failed) ==
    /\ pc = "s_after"
    /\ RunScript(failed, "s_verify")
    /\ UNCHANGED worldVars
    /\ UNCHANGED topoVars

\* Replication.check_subordinate_connection: raises when the server shows no
\* subordinate status
CheckSubordinateConnection(s, m) ==
    IF upstream[s] = NoSrv THEN "raise"
    ELSE IF IsConfiguredForMain(s, m) /\ running[s] THEN "ok" ELSE "no"

RECURSIVE PollSubordinate(_, _, _)
\* Topology._check_all_subordinates, lines 1171-1192: FALSE when the
\* subordinate is appended to subordinate_errors
PollSubordinate(s, m, iteration) ==
    IF ~(iteration < PingTime) THEN TRUE
    ELSE LET res == CheckSubordinateConnection(s, m) = "ok"
         IN  IF ~res /\ iteration >= PingTime THEN FALSE
             ELSE IF res THEN PollSubordinate(s, m, PingTime + 1)
             ELSE PollSubordinate(s, m, iteration + 1)

\* Topology._check_all_subordinates(new_main): "raise", TRUE or FALSE
CheckAllSubordinates(m) ==
    LET polled == {i \in DOMAIN subordinates : Reachable(subordinates[i])}
    IN  IF \E i \in polled : CheckSubordinateConnection(subordinates[i].host, m) = "raise"
        THEN "raise"
        ELSE IF \A i \in polled : PollSubordinate(subordinates[i].host, m, 0)
        THEN "true" ELSE "false"

\* the end of switchover (lines 2007-2014) and of failover (2257-2264)
Verify(label) ==
    /\ pc = label
    /\ LET res == CheckAllSubordinates(main)
       IN  IF res = "raise" THEN Abort("error", "raise")
           ELSE /\ pc' = "done"
                /\ ret' = [kind |-> res, val |-> NoSrv]
                /\ UNCHANGED <<call, new_main, idx, snap, hist, runs, ops, faults>>
    /\ UNCHANGED worldVars
    /\ UNCHANGED topoVars

SwitchoverVerify == Verify("s_verify")

\* ------------------------------------------------------------- failover
EnterFailover(candidates, strict, stop_on_error, abort) ==
    /\ runs' = runs + 1
    /\ UNCHANGED <<ops, faults>>
    /\ call' = [NoCall EXCEPT !.op = "failover", !.candidates = candidates,
                              !.strict = strict, !.stop_on_error = stop_on_error]
    /\ snap' = Snapshot
    /\ new_main' = BestNone
    /\ idx' = 0
    /\ IF abort # ""
       THEN /\ pc' = "aborted"
            /\ hist' = [NoHist EXCEPT !.abort = abort]
            /\ ret' = [kind |-> "raise", val |-> NoSrv]
       ELSE /\ pc' = "f_find"
            /\ hist' = NoHist
            /\ ret' = NoRet
    /\ UNCHANGED worldVars
    /\ UNCHANGED topoVars

\* RplCommands._failover, lines 548-588: the checks before
\* Topology.failover(self.candidates, strict, stop_on_error=True)
FailoverCmd(candidates) ==
    /\ pc = "idle"
    /\ runs < MaxRuns
    /\ EnterFailover(candidates, FALSE, TRUE,
          IF ServersWithGtidNotOn # {} THEN "gtid"
          ELSE IF ~options.rpl_user /\ CheckMainInfoType # "table" THEN "infotype"
          ELSE IF FindErrantTransactions(subordinates) # <<>> /\ ~options.force
               THEN "errant"
          ELSE "")

\* RplCommands.run_auto_failover, lines 962-970: the main was found down;
\* mode 'auto' (strict = FALSE) or 'elect' (strict = TRUE)
FailoverAuto(candidates, strict) ==
    /\ pc = "idle"
    /\ runs < MaxRuns
    /\ main # NoSrv
    /\ ~up[main]
    /\ EnterFailover(candidates, strict, FALSE, "")

\* Topology._check_subordinates_status: a subordinate with a problem exists
SubordinatesStatusProblem ==
    \E i \in DOMAIN subordinates :
        \/ ~Reachable(subordinates[i])
        \/ upstream[subordinates[i].host] = NoSrv
        \/ ~running[subordinates[i].host]

\* the GTID mode comparison of failover left out
GtidModeIgnored(best) == FALSE

\* Topology.failover, lines 2152-2171: the candidate does not have
\* GTID_MODE=ON, or a reachable subordinate has another GTID mode
GtidModeMismatch(best) ==
    \/ ~cfg[best.host].gtid
    \/ \E i \in DOMAIN subordinates :
          /\ Reachable(subordinates[i])
          /\ cfg[subordinates[i].host].gtid # cfg[best.host].gtid

\* Topology.failover, lines 2145-2201: election and the checks before the
\* candidate is prepared
FailoverFind ==
    /\ pc = "f_find"
    /\ LET best == FindBestSubordinate(call.candidates, FALSE, call.strict)
       IN  IF best.kind = "raise"
           THEN Abort("error", "raise")
           ELSE IF best.kind = "none"
           THEN Abort("candidate", "raise")
           ELSE IF GtidModeMismatch(best)
           THEN /\ pc' = "aborted"
                /\ hist' = [hist EXCEPT !.abort = "gtid"]
                /\ ret' = [kind |-> "raise", val |-> NoSrv]
                /\ new_main' = best
                /\ UNCHANGED <<call, idx, snap, runs, ops, faults>>
           ELSE IF SubordinatesStatusProblem
                   /\ \/ call.stop_on_error /\ ~options.force
                      \/ ~call.stop_on_error /\ options.pedantic
           THEN /\ pc' = "aborted"
                /\ hist' = [hist EXCEPT !.abort = "status"]
                /\ ret' = [kind |-> "raise", val |-> NoSrv]
                /\ new_main' = best
                /\ UNCHANGED <<call, idx, snap, runs, ops, faults>>
           ELSE /\ pc' = "f_prep"
                /\ new_main' = best
                /\ idx' = 1
                /\ UNCHANGED <<call, ret, snap, hist, runs, ops, faults>>
    /\ UNCHANGED worldVars
    /\ UNCHANGED topoVars

\* Topology._has_missing_transactions(candidate, subordinate), exec being
\* the GTID_EXECUTED of the subordinate: gtid_subset(...) is not 1
HasMissingTransactions(c, s, exec) ==
    ~(((IF upstream[s] = NoSrv THEN {} ELSE exec) \cup GetRetrievedGtidSet(s))
         \subseteq GetExecutedGtidSet(c))

\* Topology._prepare_candidate_for_failover, lines 901-934, one subordinate:
\* read_all_retrieved_gtids (drained: the wait ended with the relay log
\* applied; its result is not looked at), the skip tests, and the write
\* fence on the temporary main
FailoverPrepare(drained) ==
    /\ pc = "f_prep"
    /\ idx <= Len(subordinates)
    /\ LET d == subordinates[idx]
           s == d.host
           c == new_main.host
           drains == Reachable(d) /\ GetRetrievedGtidSet(s) # {} /\ drained
           after == IF drains THEN executed[s] \cup retrieved[s] ELSE executed[s]
       IN  /\ drained => /\ Reachable(d)
                         /\ GetRetrievedGtidSet(s) # {}
                         /\ running[s] \/ retrieved[s] \subseteq executed[s]
           /\ ~drained => ~Reachable(d) \/ GetRetrievedGtidSet(s) = {}
                             \/ ~(retrieved[s] \subseteq executed[s])
           /\ executed' = [executed EXCEPT ![s] = after]
           /\ IF ~Reachable(d) \/ s = c \/ ~HasMissingTransactions(c, s, after)
              THEN /\ Goto("f_prep")
                   /\ idx' = idx + 1
                   /\ UNCHANGED <<running, read_only, locked>>
              ELSE /\ running' = [running EXCEPT ![c] = IF up[c] THEN FALSE ELSE @]
                   /\ locked' = [locked EXCEPT ![s] = TRUE]
                   /\ read_only' = [read_only EXCEPT ![s] = TRUE]
                   /\ Goto("f_prep_switch")
                   /\ UNCHANGED idx
    /\ UNCHANGED <<cfg, up, upstream, retrieved>>
    /\ UNCHANGED topoVars

\* lines 936-960: the candidate becomes a subordinate of the temporary main,
\* the fence is lifted, the candidate is started
FailoverPrepareSwitch ==
    /\ pc = "f_prep_switch"
    /\ LET s == subordinates[idx].host
           c == new_main.host
       IN  IF ~up[c]
           THEN /\ Abort("error", "raise")
                /\ UNCHANGED <<upstream, retrieved, running, read_only, locked>>
           ELSE IF ~up[s]
           THEN /\ ChangeMain(c, s)
                /\ Abort("error", "raise")
                /\ UNCHANGED <<running, read_only, locked>>
           ELSE /\ ChangeMain(c, s)
                /\ read_only' = [read_only EXCEPT ![s] = FALSE]
                /\ locked' = [locked EXCEPT ![s] = FALSE]
                /\ running' = [running EXCEPT ![c] = TRUE]
                /\ Goto("f_prep_wait")
                /\ UNCHANGED idx
    /\ UNCHANGED <<cfg, up, executed>>
    /\ UNCHANGED topoVars

\* lines 962-970: wait_for_subordinate_gtid on the candidate (caught is its
\* result, which is not looked at), then the candidate is stopped
FailoverPrepareWait(caught) ==
    /\ pc = "f_prep_wait"
    /\ LET s == subordinates[idx].host
           c == new_main.host
           target == executed[s]
       IN  IF ~up[s] \/ ~up[c]
           THEN /\ Abort("error", "raise")
                /\ UNCHANGED <<running, executed, retrieved>>
           ELSE /\ IF caught
                   THEN /\ CanCatchUp(c, target)
                        /\ executed' = [executed EXCEPT ![c] = @ \cup target]
                        /\ retrieved' = [retrieved EXCEPT ![c] = @ \cup target]
                   ELSE /\ CanTimeOut(c, target)
                        /\ UNCHANGED <<executed, retrieved>>
                /\ running' = [running EXCEPT ![c] = FALSE]
                /\ Goto("f_prep")
                /\ idx' = idx + 1
    /\ UNCHANGED <<cfg, up, upstream, read_only, locked>>
    /\ UNCHANGED topoVars

\* line 972: _prepare_candidate_for_failover returns True
FailoverPrepared ==
    /\ pc = "f_prep"
    /\ idx > Len(subordinates)
    /\ Goto("f_swap")
    /\ idx' = 1
    /\ UNCHANGED worldVars
    /\ UNCHANGED topoVars

\* lines 2207-2216: the candidate is recorded as the main of the topology
FailoverSwap ==
    /\ pc = "f_swap"
    /\ IF ~up[new_main.host]
       THEN /\ Abort("error", "raise")
            /\ UNCHANGED main
       ELSE /\ main' = new_main.host
            /\ pc' = "f_before"
            /\ hist' = [hist EXCEPT !.swapped = TRUE, !.user = TRUE]
            /\ UNCHANGED <<call, new_main, idx, ret, snap, runs, ops, faults>>
    /\ UNCHANGED worldVars
    /\ UNCHANGED <<subordinates, options>>

\* lines 2218-2220
FailoverBefore(failed) ==
    /\ pc = "f_before"
    /\ RunScript(failed, "f_stop")
    /\ UNCHANGED worldVars
    /\ UNCHANGED topoVars

\* run_cmd_on_subordinates("stop") of failover left out
FailoverStopSkipped ==
    /\ pc = "f_stop"
    /\ Goto("f_remove")
    /\ idx' = 1
    /\ UNCHANGED worldVars
    /\ UNCHANGED topoVars

\* lines 2222-2224
FailoverStop == RunCmdOnSubordinate("stop", "f_stop", "f_remove")

\* lines 2226-2227
FailoverRemove ==
    /\ pc = "f_remove"
    /\ subordinates' = RemoveSubordinate(subordinates, new_main.host)
    /\ Goto("f_switch")
    /\ idx' = 1
    /\ UNCHANGED worldVars
    /\ UNCHANGED <<main, options>>

\* lines 2229-2236, one subordinate
FailoverSwitch ==
    /\ pc = "f_switch"
    /\ IF idx > Len(subordinates)
       THEN /\ Goto("f_reset")
            /\ idx' = 1
            /\ UNCHANGED <<upstream, retrieved>>
       ELSE /\ Goto("f_switch")
            /\ idx' = idx + 1
            /\ IF Reachable(subordinates[idx])
               THEN ChangeMain(subordinates[idx].host, main)
               ELSE UNCHANGED <<upstream, retrieved>>
    /\ UNCHANGED <<cfg, up, running, executed, read_only, locked>>
    /\ UNCHANGED topoVars

\* lines 2238-2247: STOP SLAVE and RESET SLAVE ALL on the new main
FailoverReset ==
    /\ pc = "f_reset"
    /\ IF ~up[main]
       THEN /\ Abort("error", "raise")
            /\ UNCHANGED <<upstream, running, retrieved>>
       ELSE /\ running' = [running EXCEPT ![main] = FALSE]
            /\ retrieved' = [retrieved EXCEPT ![main] = {}]
            /\ upstream' = [upstream EXCEPT ![main] = NoSrv]
            /\ Goto("f_start")
            /\ idx' = 1
    /\ UNCHANGED <<cfg, up, executed, read_only, locked>>
    /\ UNCHANGED topoVars

\* lines 2249-2251
FailoverStart == RunCmdOnSubordinate("start", "f_start", "f_after")

\* lines 2253-2255
FailoverAfter(failed) ==
    /\ pc = "f_after"
    /\ RunScript(failed, "f_verify")
    /\ UNCHANGED worldVars
    /\ UNCHANGED topoVars

\* lines 2257-2264
FailoverVerify == Verify("f_verify")

\* a row without a host name is treated like the others
GetSubordinatesAnyRow(m, rows, nohost) ==
    SelectSeq(rows, LAMBDA s : up[s] /\ IsConfiguredForMain(s, m))

\* ------------------------------------------------- registry operations
RECURSIVE GetSubordinates(_, _, _)
\* Main.get_subordinates: the rows of SHOW SLAVE HOSTS in server order
\* (rows: the servers still to look at); the loop is left at the first row
\* without a reported host (nohost), a row that cannot be connected is
\* skipped, and so is one that is not configured for this main
\* (_check_discovered_subordinate)
GetSubordinates(m, rows, nohost) ==
    IF rows = <<>> THEN <<>>
    ELSE IF Head(rows) = nohost THEN <<>>
    ELSE IF ~up[Head(rows)] \/ ~IsConfiguredForMain(Head(rows), m)
         THEN GetSubordinates(m, Tail(rows), nohost)
    ELSE <<Head(rows)>> \o GetSubordinates(m, Tail(rows), nohost)

\* the rows of SHOW SLAVE HOSTS on the main, sorted
SlaveHosts ==
    SelectSeq([i \in 1..NumServers |-> i],
              LAMBDA s : upstream[s] = main /\ running[s] /\ s # main)

\* every server found is appended, whatever its IO thread does
AppendDiscoveredUnchecked(subs, found) ==
    LET new == SelectSeq(found, LAMBDA h : h \notin Hosts(subs))
    IN  subs \o [i \in DOMAIN new |-> SubordinateDict(new[i], TRUE, TRUE)]

RECURSIVE AppendDiscovered(_, _)
\* Topology.discover_subordinates, lines 400-466: a discovered server that
\* is not in the list yet and whose IO thread is connected is appended
AppendDiscovered(subs, found) ==
    IF found = <<>> THEN subs
    ELSE IF Head(found) \in Hosts(subs) THEN AppendDiscovered(subs, Tail(found))
    ELSE IF up[Head(found)] /\ running[Head(found)]
         THEN AppendDiscovered(Append(subs, SubordinateDict(Head(found), TRUE, TRUE)),
                               Tail(found))
    ELSE AppendDiscovered(subs, Tail(found))

\* Topology.discover_subordinates (the discover option is set)
DiscoverSubordinates(nohost) ==
    /\ pc = "idle"
    /\ ops < MaxOps
    /\ ops' = ops + 1
    /\ main # NoSrv
    /\ up[main]
    /\ nohost = NoSrv \/ nohost \in Range(SlaveHosts)
    /\ subordinates' = AppendDiscovered(subordinates,
                                      GetSubordinates(main, SlaveHosts, nohost))
    /\ subordinates' # subordinates \/ nohost # NoSrv
    /\ ret' = [kind |-> IF subordinates' # subordinates THEN "true" ELSE "false",
               val |-> NoSrv]
    /\ UNCHANGED <<pc, call, new_main, idx, snap, hist, runs, faults>>
    /\ UNCHANGED worldVars
    /\ UNCHANGED <<main, options>>

\* Topology.remove_discovered_subordinates
RemoveDiscovered ==
    /\ pc = "idle"
    /\ ops < MaxOps
    /\ ops' = ops + 1
    /\ \E i \in DOMAIN subordinates : subordinates[i].discovered
    /\ subordinates' = RemoveDiscoveredSubordinates(subordinates)
    /\ UNCHANGED <<pc, call, new_main, idx, ret, snap, hist, runs, faults>>
    /\ UNCHANGED worldVars
    /\ UNCHANGED <<main, options>>

\* Topology.remove_subordinate(subordinate), called on an idle topology
RemoveSubordinateCall(h) ==
    /\ pc = "idle"
    /\ ops < MaxOps
    /\ ops' = ops + 1
    /\ h \in Hosts(subordinates)
    /\ subordinates' = RemoveSubordinate(subordinates, h)
    /\ UNCHANGED <<pc, call, new_main, idx, ret, snap, hist, runs, faults>>
    /\ UNCHANGED worldVars
    /\ UNCHANGED <<main, options>>

\* ------------------------------------------------------- specification
MaxCandidates == 1
Candidates == SeqsOver(Srv, MaxCandidates)

Next ==
    \/ \E s \in Srv : ServerDown(s)
    \/ \E c \in Srv : SwitchoverCmd(c)
    \/ \E mismatch \in BOOLEAN : SwitchoverPrerequisites(mismatch)
    \/ \E failed \in BOOLEAN : SwitchoverBefore(failed)
    \/ SwitchoverFence
    \/ \E caught \in BOOLEAN : SwitchoverWait(caught)
    \/ SwitchoverWaitDone
    \/ SwitchoverStop
    \/ SwitchoverUnfence
    \/ SwitchoverDemote
    \/ SwitchoverSwap
    \/ \E forgets \in BOOLEAN : SwitchoverReset(forgets)
    \/ SwitchoverSwitch
    \/ SwitchoverStart
    \/ \E failed \in BOOLEAN : SwitchoverAfter(failed)
    \/ SwitchoverVerify
    \/ \E candidates \in Candidates : FailoverCmd(candidates)
    \/ \E candidates \in Candidates, strict \in BOOLEAN : FailoverAuto(candidates, strict)
    \/ FailoverFind
    \/ \E drained \in BOOLEAN : FailoverPrepare(drained)
    \/ FailoverPrepareSwitch
    \/ \E caught \in BOOLEAN : FailoverPrepareWait(caught)
    \/ FailoverPrepared
    \/ FailoverSwap
    \/ \E failed \in BOOLEAN : FailoverBefore(failed)
    \/ FailoverStop
    \/ FailoverRemove
    \/ FailoverSwitch
    \/ FailoverReset
    \/ FailoverStart
    \/ \E failed \in BOOLEAN : FailoverAfter(failed)
    \/ FailoverVerify
    \/ Return
    \/ \E nohost \in Srv \cup {NoSrv} : DiscoverSubordinates(nohost)
    \/ RemoveDiscovered
    \/ \E h \in Srv : RemoveSubordinateCall(h)

Spec == Init /\ [][Next]_vars

\* ------------------------------------------------------------ properties
\* the protocol is not in the middle of an operation
Quiescent == pc \in {"idle", "done", "aborted"}

\* C1: in every topology state reached after any sequence of registry
\* operations, switchovers and failovers, completed or aborted, no record of
\* the subordinates list has the host:port of the current main.
C1_NoSubordinateIsMain ==
    Quiescent => \A i \in DOMAIN subordinates : subordinates[i].host # main

\* a failover returned True
FailoverSucceeded == pc = "done" /\ call.op = "failover" /\ ret.kind = "true"

\* C2: after a failover that returns success, every reachable subordinate of
\* the list has the new main as its upstream, and the new main is not in
\* the subordinates list.
C2_FailoverRepointsAll ==
    FailoverSucceeded =>
        /\ \A i \in DOMAIN subordinates :
              Reachable(subordinates[i]) => upstream[subordinates[i].host] = main
        /\ main \notin Hosts(subordinates)

\* the first half of C2 alone
C2_ReachableRepointed ==
    FailoverSucceeded =>
        \A i \in DOMAIN subordinates :
            Reachable(subordinates[i]) => upstream[subordinates[i].host] = main

\* a switchover returned True
SwitchoverSucceeded == pc = "done" /\ call.op = "switchover" /\ ret.kind = "true"

\* the new main shows no upstream, also after reset_all is run on it again
PrimaryOnly ==
    /\ upstream[main] = NoSrv
    /\ \A forgets \in BOOLEAN : UpstreamAfterReset(main, forgets) = NoSrv

Repointed(s) == upstream'[s] # upstream[s] /\ upstream'[s] # NoSrv

\* every reachable subordinate of the list is stopped
AllReachableStopped ==
    \A i \in DOMAIN subordinates :
        Reachable(subordinates[i]) => ~running[subordinates[i].host]

PrerequisiteAborts == {"candidate", "gtid", "errant", "notconfigured", "rpluser"}

\* C5: when a switchover or failover aborts on an unmet prerequisite, the
\* main, the subordinates list and every server's upstream, replication run
\* state, read_only flag and lock are what they were when the run started,
\* and no replication user has been written.
C5_PrerequisiteAbortChangesNothing ==
    (pc = "aborted" /\ hist.abort \in PrerequisiteAborts) =>
        /\ Snapshot = snap
        /\ ~hist.user
        /\ ~hist.swapped

\* a switchover stopped on a subordinate that is not configured for the main
C5_Witness ==
    /\ pc = "aborted"
    /\ call.op = "switchover"
    /\ hist.abort = "notconfigured"
    /\ ~SubordinatesConfigured

\* the steps of failover that follow the checks
FailoverSteps == {"f_prep", "f_prep_switch", "f_prep_wait", "f_swap", "f_before",
                  "f_stop", "f_remove", "f_switch", "f_reset", "f_start",
                  "f_after", "f_verify", "done"}

\* C6: a failover performs no mutating step while the selected candidate or
\* a reachable subordinate does not have GTID mode ON, whatever the force
\* option; the failover that stops on the GTID mode raises an error.
C6_FailoverRequiresGtid ==
    call.op = "failover" =>
        /\ (pc \in FailoverSteps \/ Snapshot # snap) =>
              /\ new_main.kind = "dict"
              /\ cfg[new_main.host].gtid
              /\ \A i \in DOMAIN subordinates :
                    Reachable(subordinates[i]) => cfg[subordinates[i].host].gtid
        /\ (pc = "aborted" /\ hist.abort = "gtid") =>
              (ret.kind = "raise" /\ Snapshot = snap)

\* a forced failover stopped on the GTID mode after a candidate was selected
C6_Witness ==
    /\ call.op = "failover"
    /\ pc = "aborted"
    /\ hist.abort = "gtid"
    /\ options.force
    /\ new_main.kind = "dict"

\* C7: when _prepare_candidate_for_failover has returned, the candidate's
\* executed GTID set contains every transaction executed or retrieved by
\* every reachable subordinate of the list.
C7_CandidateMostUpToDate ==
    pc = "f_swap" =>
        \A i \in DOMAIN subordinates :
            Reachable(subordinates[i]) =>
                (executed[subordinates[i].host] \cup retrieved[subordinates[i].host])
                    \subseteq executed[new_main.host]

\* ------------------------------------- find_errant_transactions alone
\* Topology.find_errant_transactions called on a GTID topology whose
\* subordinates have executed any transactions of MaxErrantUuid servers;
\* any server is the main, the list holds the others in any order, at most
\* one of them has stopped answering.
MaxErrantUuid == 3
ErrantGtids == {g \in Gtid : g[1] <= MaxErrantUuid /\ g[2] = 1}

InitErrant ==
    /\ main \in Srv
    /\ subordinates \in {[i \in DOMAIN q |-> SubordinateDict(q[i], TRUE, FALSE)] :
                            q \in SeqsOver(Srv \ {main}, NumServers - 1)}
    /\ cfg = InitCfg({}, TRUE)
    /\ up \in {u \in [Srv -> BOOLEAN] : u[main] /\ Cardinality({s \in Srv : ~u[s]}) <= 1}
    /\ upstream = [s \in Srv |-> IF s = main THEN NoSrv ELSE main]
    /\ running = [s \in Srv |-> s # main]
    /\ executed \in {e \in [Srv -> SUBSET ErrantGtids] :
                        \A s \in Srv : s \notin Hosts(subordinates) => e[s] = {}}
    /\ retrieved = [s \in Srv |-> {}]
    /\ read_only = [s \in Srv |-> FALSE]
    /\ locked = [s \in Srv |-> FALSE]
    /\ options = [force |-> FALSE, demote |-> FALSE, pedantic |-> FALSE, rpl_user |-> FALSE]
    /\ faults = 0
    /\ InitRun

\* a call of Topology.find_errant_transactions
CallFindErrantTransactions ==
    /\ pc = "idle"
    /\ pc' = "done"
    /\ call' = [NoCall EXCEPT !.op = "find_errant"]
    /\ ret' = [kind |-> "errant", val |-> FindErrantTransactions(subordinates)]
    /\ UNCHANGED <<new_main, idx, snap, hist, runs, ops, faults>>
    /\ UNCHANGED worldVars
    /\ UNCHANGED topoVars

NextErrant == CallFindErrantTransactions

SpecErrant == InitErrant /\ [][NextErrant]_vars

\* find_errant_transactions reported transaction g for the subordinate h
Reported(h, g) ==
    \E k \in DOMAIN ret.val : ret.val[k].host = h /\ g \in Expand(ret.val[k].set)

\* g is errant on the subordinate of record i: executed there, on no other
\* reachable subordinate, and not originated by the main
IsErrant(i, g) ==
    /\ g \in executed[subordinates[i].host]
    /\ \A j \in DOMAIN subordinates :
          (j # i /\ Reachable(subordinates[j])) => g \notin executed[subordinates[j].host]
    /\ g[1] # main

\* C8: for every order of the subordinates list, find_errant_transactions
\* reports a transaction for a reachable subordinate if and only if the
\* transaction is in its executed set, in the executed set of no other
\* reachable subordinate, and not originated by the main.
C8_ErrantIffOnlyHere ==
    (pc = "done" /\ call.op = "find_errant") =>
        \A i \in DOMAIN subordinates : \A g \in ErrantGtids :
            Reachable(subordinates[i]) =>
                (Reported(subordinates[i].host, g) <=> IsErrant(i, g))

\* the order of the list decides the result: the transaction of server 2,
\* executed by the subordinates 2 and 4, is reported for 2 when the list is
\* 2, 3, 4 (and is not when it is 2, 4, 3)
C8_BreakDependsOnOrder ==
    ~(/\ pc = "done"
      /\ call.op = "find_errant"
      /\ main = 1
      /\ \A s \in Srv : up[s]
      /\ Len(subordinates) = 3
      /\ subordinates[1].host = 2 /\ subordinates[2].host = 3 /\ subordinates[3].host = 4
      /\ executed[2] = {<<2, 1>>} /\ executed[3] = {} /\ executed[4] = {<<2, 1>>}
      /\ Reported(2, <<2, 1>>))

\* ----------------------------------------- find_best_subordinate alone
\* Topology.find_best_subordinate called with any candidate list, check_main
\* and strict on a topology that deviates from the healthy one in at most
\* MaxBestFaults places.
MaxBestFaults == 2
BestFaultKinds == {"down", "noinst", "unlisted", "rplmissing", "rplerror", "filt",
                   "behind", "nobinlog", "notsub", "stopped"}
BestFaults == {f \in Faults : f[2] \in BestFaultKinds}
MaxBestCandidates == 2

InitBest ==
    /\ \E F \in SetsUpTo(BestFaults, MaxBestFaults), gtid_topology \in BOOLEAN :
          /\ InitWorld(F, gtid_topology)
          /\ subordinates = InitSubordinates(F)
          /\ faults = Cardinality(F)
    /\ main = 1
    /\ options \in {o \in Options : ~o.demote /\ ~o.pedantic}
    /\ InitRun

\* a call of Topology.find_best_subordinate(candidates, check_main, strict)
CallFindBestSubordinate(candidates, check_main, strict) ==
    /\ pc = "idle"
    /\ pc' = "done"
    /\ call' = [NoCall EXCEPT !.op = "find_best", !.candidates = candidates,
                              !.check_main = check_main, !.strict = strict]
    /\ new_main' = FindBestSubordinate(candidates, check_main, strict)
    /\ ret' = [kind |-> new_main'.kind, val |-> new_main'.host]
    /\ UNCHANGED <<idx, snap, hist, runs, ops, faults>>
    /\ UNCHANGED worldVars
    /\ UNCHANGED topoVars

NextBest ==
    \E candidates \in SeqsOver(Srv, MaxBestCandidates), check_main \in BOOLEAN,
       strict \in BOOLEAN :
        CallFindBestSubordinate(candidates, check_main, strict)

SpecBest == InitBest /\ [][NextBest]_vars

FindBestReturned == pc = "done" /\ call.op = "find_best"

\* the candidate at position k of the call is fully eligible
EligibleCandidate(k) ==
    /\ up[call.candidates[k]]
    /\ CheckCandidateEligibility(call.candidates[k], call.check_main).ok

\* the subordinate of record i is reachable and fully eligible
EligibleSubordinate(i) ==
    /\ Reachable(subordinates[i])
    /\ CheckCandidateEligibility(subordinates[i].host, call.check_main).ok

\* the least number of a set of positions
First(S) == CHOOSE k \in S : \A l \in S : k <= l

\* C9: when find_best_subordinate returns, it returns the first fully
\* eligible server of the candidate list; when no candidate is eligible it
\* returns None if strict is set, and otherwise the first eligible reachable
\* subordinate of the list in list order, or None when there is none.
C9_FirstEligibleWins ==
    (FindBestReturned /\ ret.kind # "raise") =>
        LET cs == {k \in DOMAIN call.candidates : EligibleCandidate(k)}
            ss == {i \in DOMAIN subordinates : EligibleSubordinate(i)}
        IN  IF cs # {} THEN new_main = BestDict(call.candidates[First(cs)], FALSE)
            ELSE IF call.strict THEN new_main = BestNone
            ELSE IF ss # {} THEN new_main = BestDict(subordinates[First(ss)].host, TRUE)
            ELSE new_main = BestNone

\* the second candidate was chosen: the first one is not eligible
C9_WitnessCandidate ==
    /\ FindBestReturned
    /\ Len(call.candidates) = 2
    /\ new_main = BestDict(call.candidates[2], FALSE)
    /\ ~EligibleCandidate(1)

\* C10: find_best_subordinate treats a server whose connection or
\* eligibility evaluation raises a communication error as ineligible; no
\* error leaves the method.
C10_ErrorsNotPropagated == FindBestReturned => ret.kind # "raise"

\* ------------------------------------ _check_candidate_eligibility alone
\* Topology._check_candidate_eligibility called for a connected server, with
\* either value of check_main, on a topology that deviates from the healthy
\* one in at most MaxEligFaults places.
MaxEligFaults == 2
EligFaultKinds == {"gtidflip", "nobinlog", "rplmissing", "rplerror", "filt",
                   "behind", "notsub", "stopped"}
EligFaults == {f \in Faults : f[2] \in EligFaultKinds} \cup {<<1, "down">>}

InitEligible ==
    /\ \E F \in SetsUpTo(EligFaults, MaxEligFaults), gtid_topology \in BOOLEAN :
          /\ InitWorld(F, gtid_topology)
          /\ subordinates = InitSubordinates(F)
          /\ faults = Cardinality(F)
    /\ main = 1
    /\ options \in {o \in Options : ~o.demote /\ ~o.pedantic}
    /\ InitRun

\* what a call of _check_candidate_eligibility left: the name of the check
\* returned, "eligible" for (True, "", ""), "raise" for a UtilError
EligibilityResult(r) ==
    IF r = Raised THEN "raise" ELSE IF r.ok THEN "eligible" ELSE r.check

\* a call of Topology._check_candidate_eligibility(host, port, subordinate,
\* check_main) on the instance of a connected server
CallCheckCandidateEligibility(s, check_main) ==
    /\ pc = "idle"
    /\ up[s]
    /\ s # main
    /\ pc' = "done"
    /\ call' = [NoCall EXCEPT !.op = "eligibility", !.candidate = s,
                              !.check_main = check_main]
    /\ ret' = [kind |-> EligibilityResult(CheckCandidateEligibility(s, check_main)),
               val |-> s]
    /\ UNCHANGED <<new_main, idx, snap, hist, runs, ops, faults>>
    /\ UNCHANGED worldVars
    /\ UNCHANGED topoVars

\* the same call repeated with the force option set
CallWithForce ==
    /\ pc = "done"
    /\ call.op = "eligibility"
    /\ ~options.force
    /\ options' = [options EXCEPT !.force = TRUE]
    /\ call' = [call EXCEPT !.op = "eligibility_force"]
    /\ UNCHANGED <<pc, new_main, idx, snap, hist, runs, ops, faults>>
    /\ UNCHANGED worldVars
    /\ UNCHANGED <<main, subordinates>>
    /\ ret' = [kind |-> EligibilityResult(
                   CheckCandidateEligibility(call.candidate, call.check_main))',
               val |-> call.candidate]

NextEligible ==
    \/ \E s \in Srv, check_main \in BOOLEAN : CallCheckCandidateEligibility(s, check_main)
    \/ CallWithForce

SpecEligible == InitEligible /\ [][NextEligible]_vars

EligibilityReturned ==
    /\ pc = "done"
    /\ call.op \in {"eligibility", "eligibility_force"}
    /\ ret.kind # "raise"

\* the checks of the docstring (lines 676-685), each taken alone, for the
\* server and the check_main of the call
ConnectedFails == call.check_main /\ ~IsConfiguredForMain(call.candidate, main)
GtidFails == cfg[main].gtid /\ ~cfg[call.candidate].gtid
BehindFails == ~cfg[call.candidate].gtid /\ call.check_main /\ cfg[call.candidate].behind
FiltersFails == ~options.force /\ call.check_main /\ ~CheckFilters(main, call.candidate)
BinlogFails == ~cfg[call.candidate].gtid /\ ~cfg[call.candidate].binlog
RplUserFails == ~options.force /\ cfg[call.candidate].rpl = "missing"

\* the first check that fails, in the order of the pipeline
FirstFailing(connected, gtid, behind, filters, binlog, rpl_user) ==
    IF connected THEN "CONNECTED"
    ELSE IF gtid THEN "GTID"
    ELSE IF behind THEN "BEHIND"
    ELSE IF filters THEN "FILTERS"
    ELSE IF binlog THEN "BINLOG"
    ELSE IF rpl_user THEN "RPL_USER"
    ELSE "eligible"

\* C11: when _check_candidate_eligibility returns, the check it names is the
\* first of CONNECTED, GTID, BEHIND, FILTERS, BINLOG, RPL_USER that fails for
\* the candidate, and it returns (True, '', '') exactly when none fails.
C11_FirstFailingCheckReturned ==
    EligibilityReturned =>
        ret.kind = FirstFailing(ConnectedFails, GtidFails, BehindFails,
                                FiltersFails, BinlogFails, RplUserFails)

\* C11 without the GTID check: the order of the five other checks
C11_OrderOfOtherChecks ==
    EligibilityReturned =>
        ret.kind = FirstFailing(ConnectedFails, FALSE, BehindFails,
                                FiltersFails, BinlogFails, RplUserFails)

\* C12: when the main has GTID mode ON and the candidate does not (and the
\* candidate passes the CONNECTED check, which comes first),
\* _check_candidate_eligibility returns the candidate as ineligible with the
\* failed check GTID.
C12_GtidOffCandidateRejected ==
    (EligibilityReturned /\ GtidFails /\ ~ConnectedFails) => ret.kind = "GTID"

\* C13: setting force, for the same candidate and server states, keeps an
\* eligible candidate eligible, turns an RPL_USER failure into a pass, lets
\* the pipeline go past a FILTERS failure to the outcome of the later
\* checks, and changes no other result.
C13_ForceOnlyRelaxes ==
    [][(~options.force /\ options'.force) =>
          /\ ret.kind = "eligible" => ret'.kind = "eligible"
          /\ ret.kind \in {"CONNECTED", "GTID", "BEHIND", "BINLOG", "raise"}
                => ret'.kind = ret.kind
          /\ ret.kind = "RPL_USER" => ret'.kind = "eligible"
          /\ ret.kind = "FILTERS"
                => /\ ret'.kind \in {"eligible", "BINLOG", "raise"}
                   /\ (ret'.kind = "BINLOG") = BinlogFails]_vars

\* a candidate whose filters differ from the main's was checked without
\* force and again with force, and is eligible now
C13_Witness ==
    /\ pc = "done"
    /\ call.op = "eligibility_force"
    /\ call.check_main
    /\ ~CheckFilters(main, call.candidate)
    /\ ret.kind = "eligible"

\* failover with an empty candidates list has just elected new_main in a
\* GTID topology; nothing has been changed yet
ElectedFromSubordinates ==
    /\ pc = "f_prep"
    /\ idx = 1
    /\ call.op = "failover"
    /\ call.candidates = <<>>
    /\ new_main.kind = "dict"
    /\ \A s \in Srv : cfg[s].gtid

\* the subordinate s has executed every transaction of the old main
CaughtUp(s) == executed[main] \subseteq executed[s]

\* C14: in a GTID topology with a subordinate that is fully caught up and
\* one that lags the main by transactions it has not read, failover with an
\* empty candidates list elects a caught-up subordinate, never the lagging
\* one (which is then re-pointed to the new main).
C14_CaughtUpSubordinateElected ==
    (/\ ElectedFromSubordinates
     /\ \E i \in DOMAIN subordinates :
           Reachable(subordinates[i]) /\ CaughtUp(subordinates[i].host))
        => CaughtUp(new_main.host)

\* the wait of switchover for the subordinate of record idx (lines
\* 1905-1910) ends in this step without the subordinate having caught up
SwitchoverWaitExpired ==
    /\ pc = "s_wait"
    /\ idx <= Len(subordinates)
    /\ up[main]
    /\ Reachable(subordinates[idx])
    /\ IF cfg[main].gtid
       THEN ~(executed[main] \subseteq executed'[subordinates[idx].host])
       ELSE cfg[subordinates[idx].host].behind

\* the relay log wait of read_all_retrieved_gtids (line 820) ends in this
\* step with retrieved transactions still not applied
DrainExpired ==
    /\ pc = "f_prep"
    /\ idx <= Len(subordinates)
    /\ Reachable(subordinates[idx])
    /\ GetRetrievedGtidSet(subordinates[idx].host) # {}
    /\ ~(retrieved[subordinates[idx].host] \subseteq executed'[subordinates[idx].host])

\* the wait of the candidate for its temporary main (line 966) ends in this
\* step without the candidate having the transactions of the temporary main
CandidateWaitExpired ==
    /\ pc = "f_prep_wait"
    /\ up[subordinates[idx].host]
    /\ up[new_main.host]
    /\ ~(executed[subordinates[idx].host] \subseteq executed'[new_main.host])

\* C15: when a wait of switchover or failover (subordinate catch-up to the
\* fenced main, relay log drain, candidate catch-up to a temporary main)
\* expires, the protocol aborts with an error unless force is set, and goes
\* on when force is set.
C15_ExpiredWaitAbortsUnlessForce ==
    [][(/\ SwitchoverWaitExpired \/ DrainExpired \/ CandidateWaitExpired
        /\ <<pc, idx>>' # <<pc, idx>>)
          => IF options.force THEN pc' # "aborted" ELSE pc' = "aborted"]_vars

\* C15 for the wait of switchover alone
C15_SwitchoverWaitAbortsUnlessForce ==
    [][(SwitchoverWaitExpired /\ <<pc, idx>>' # <<pc, idx>>)
          => IF options.force THEN pc' # "aborted" ELSE pc' = "aborted"]_vars

\* C16: a 'switchover' or 'failover' command whose protocol aborted, or
\* returned anything but True, is not reported as success: execute_command
\* does not return True for it.
C16_AbortNotReportedAsSuccess ==
    [][(/\ pc \in {"done", "aborted"}
        /\ pc' = "idle"
        /\ IsCommand
        /\ pc = "aborted" \/ ret.kind # "true")
          => ret'.kind # "true"]_vars

\* ---------------------------------------------- the registry alone
\* Topology.__init__ on a list of at most MaxConfigured configured
\* subordinates, then at most MaxRegOps calls of discover_subordinates and
\* remove_discovered_subordinates; the servers deviate from the healthy
\* topology in at most MaxRegFaults places.
MaxRegFaults == 2
MaxConfigured == 2
MaxRegOps == 2
RegFaults == {f \in Faults : f[2] \in {"down", "notsub", "stopped"}}

\* the rows of a SHOW SLAVE HOSTS result that names the servers of S, sorted
SortedRows(S) == SelectSeq([i \in 1..NumServers |-> i], LAMBDA s : s \in S)

\* what the main may advertise: any servers but itself, and at most one
\* row without a host name (NoSrv: none)
Advertised == {r \in [rows : {SortedRows(S) : S \in SUBSET (Srv \ {1})},
                      nohost : Srv \cup {NoSrv}] :
                  r.nohost = NoSrv \/ r.nohost \in Range(r.rows)}

InitRegistry ==
    /\ \E F \in SetsUpTo(RegFaults, MaxRegFaults) :
          /\ InitWorld(F, TRUE)
          /\ faults = Cardinality(F)
    /\ main = NoSrv
    /\ subordinates = <<>>
    /\ options = [force |-> FALSE, demote |-> FALSE, pedantic |-> FALSE, rpl_user |-> FALSE]
    /\ pc = "new"
    /\ \E subordinate_vals \in SeqsOver(Srv \ {1}, MaxConfigured) :
          call = [NoCall EXCEPT !.op = "new", !.candidates = subordinate_vals]
    /\ new_main = BestNone
    /\ idx = 0
    /\ ret = NoRet
    /\ snap = NoSnapshot
    /\ hist = NoHist
    /\ runs = 0
    /\ ops = 0

\* the subordinates that cannot be connected get no record
ConnectToReachable(subordinate_vals) ==
    LET reached == SelectSeq(subordinate_vals, LAMBDA s : up[s])
    IN  [i \in DOMAIN reached |-> SubordinateDict(reached[i], TRUE, FALSE)]

\* Topology._connect_to_servers, lines 291-314: one subordinate_dict per
\* entry of subordinate_vals
ConnectToSubordinates(subordinate_vals) ==
    [i \in DOMAIN subordinate_vals |->
        SubordinateDict(subordinate_vals[i], up[subordinate_vals[i]], FALSE)]

\* Topology.__init__(main_vals, subordinate_vals, options, skip_conn_err):
\* _connect_to_servers, then discover_subordinates when the discover option
\* is set (adv: what the main advertises then). call.candidate keeps
\* main_vals, call.strict keeps "not skip_conn_err".
TopologyInit(main_vals, skip_conn_err, discover, adv) ==
    /\ pc = "new"
    /\ LET subordinate_vals == call.candidates
           connected == ConnectToSubordinates(subordinate_vals)
       IN  /\ call' = [call EXCEPT !.op = "init", !.strict = ~skip_conn_err,
                                   !.candidate = IF main_vals THEN 1 ELSE NoSrv]
           /\ IF \/ main_vals /\ ~up[1]
                 \/ ~skip_conn_err /\ \E i \in DOMAIN subordinate_vals :
                                         ~up[subordinate_vals[i]]
              THEN /\ pc' = "failed"
                   /\ ret' = [kind |-> "raise", val |-> NoSrv]
                   /\ UNCHANGED <<main, subordinates>>
              ELSE /\ pc' = "idle"
                   /\ ret' = NoRet
                   /\ main' = IF main_vals THEN 1 ELSE NoSrv
                   /\ subordinates' =
                         IF discover /\ main_vals
                         THEN AppendDiscovered(connected,
                                  GetSubordinates(1, adv.rows, adv.nohost))
                         ELSE connected
    /\ UNCHANGED <<new_main, idx, snap, hist, runs, ops, faults>>
    /\ UNCHANGED worldVars
    /\ UNCHANGED options

\* Topology.discover_subordinates() with the discover option set, adv being
\* what the main advertises; call keeps the rows, ret.val the row named in
\* the warning of get_subordinates (lines 1022-1027)
DiscoverCall(adv) ==
    /\ pc = "idle"
    /\ ops < MaxRegOps
    /\ ops' = ops + 1
    /\ main # NoSrv
    /\ main \notin Range(adv.rows)
    /\ call' = [NoCall EXCEPT !.op = "discover", !.candidates = adv.rows,
                              !.candidate = adv.nohost]
    /\ IF ~up[main]
       THEN /\ ret' = [kind |-> "raise", val |-> NoSrv]
            /\ UNCHANGED subordinates
       ELSE /\ subordinates' = AppendDiscovered(subordinates,
                                   GetSubordinates(main, adv.rows, adv.nohost))
            /\ ret' = [kind |-> IF subordinates' # subordinates THEN "true" ELSE "false",
                       val |-> adv.nohost]
    /\ UNCHANGED <<pc, new_main, idx, snap, hist, runs, faults>>
    /\ UNCHANGED worldVars
    /\ UNCHANGED <<main, options>>

\* Topology.remove_discovered_subordinates(); snap keeps the main and the
\* list the call found
RemoveDiscoveredCall ==
    /\ pc = "idle"
    /\ ops < MaxRegOps
    /\ ops' = ops + 1
    /\ call' = [NoCall EXCEPT !.op = "remove_discovered"]
    /\ snap' = [NoSnapshot EXCEPT !.main = main, !.subordinates = subordinates]
    /\ subordinates' = RemoveDiscoveredSubordinates(subordinates)
    /\ ret' = NoRet
    /\ UNCHANGED <<pc, new_main, idx, hist, runs, faults>>
    /\ UNCHANGED worldVars
    /\ UNCHANGED <<main, options>>

NextRegistry ==
    \/ \E main_vals \in BOOLEAN, skip_conn_err \in BOOLEAN, discover \in BOOLEAN,
          adv \in Advertised : TopologyInit(main_vals, skip_conn_err, discover, adv)
    \/ \E adv \in Advertised : DiscoverCall(adv)
    \/ RemoveDiscoveredCall

SpecRegistry == InitRegistry /\ [][NextRegistry]_vars

\* this step is a call of discover_subordinates on a reachable main
DiscoverStep == call'.op = "discover" /\ ops' = ops + 1 /\ up[main]

\* C17: discover_subordinates appends a server only if the main advertises
\* it, it is not in the list yet, it is reachable, it reports this main as
\* its upstream and its IO thread runs; the record is marked discovered; the
\* call does not raise for the other advertised servers and leaves the
\* records it found unchanged.
C17_DiscoverAdmitsOnlyAttached ==
    [][DiscoverStep =>
          /\ ret'.kind # "raise"
          /\ Len(subordinates') >= Len(subordinates)
          /\ SubSeq(subordinates', 1, Len(subordinates)) = subordinates
          /\ \A i \in (Len(subordinates) + 1)..Len(subordinates') :
                LET d == subordinates'[i]
                IN  /\ d.discovered
                    /\ d.instance
                    /\ d.host \in Range(call'.candidates)
                    /\ d.host \notin Hosts(subordinates)
                    /\ up[d.host]
                    /\ upstream[d.host] = main
                    /\ running[d.host]
                    /\ \A j \in (Len(subordinates) + 1)..Len(subordinates') :
                          subordinates'[j].host = d.host => j = i]_vars

\* a call of discover_subordinates appended a server and left out another
\* advertised one
C17_Witness ==
    /\ call.op = "discover"
    /\ ret.kind = "true"
    /\ \E s \in Range(call.candidates) : s \notin Hosts(subordinates)
    /\ \E i \in DOMAIN subordinates : subordinates[i].discovered

\* C18: when the main advertises a row with an empty host name,
\* discover_subordinates does not raise, does not admit that row, and the
\* row is named in a warning.
C18_EmptyHostSkipped ==
    [][(DiscoverStep /\ call'.candidate # NoSrv) =>
          /\ ret'.kind # "raise"
          /\ ret'.val = call'.candidate
          /\ call'.candidate \notin Hosts(subordinates)
                => call'.candidate \notin Hosts(subordinates')]_vars

\* the row without a host name is a server that would have been admitted:
\* reachable, attached to this main, IO thread running, not in the list
C18_Witness ==
    /\ call.op = "discover"
    /\ call.candidate # NoSrv
    /\ ret.kind \in {"true", "false"}
    /\ up[call.candidate]
    /\ upstream[call.candidate] = main
    /\ running[call.candidate]
    /\ call.candidate \notin Hosts(subordinates)

\* the position in subs of the k-th record that is not discovered
KeptAt(subs, k) ==
    CHOOSE i \in DOMAIN subs :
        /\ ~subs[i].discovered
        /\ Cardinality({j \in 1..(i - 1) : ~subs[j].discovered}) = k - 1

\* C19: remove_discovered_subordinates leaves the records that are not
\* discovered, all of them and in their order, drops the others, and does
\* not touch the main.
C19_RemoveDropsExactlyDiscovered ==
    [][(call'.op = "remove_discovered" /\ ops' = ops + 1) =>
          /\ main' = main
          /\ Len(subordinates') =
                Cardinality({i \in DOMAIN subordinates : ~subordinates[i].discovered})
          /\ \A k \in DOMAIN subordinates' :
                subordinates'[k] = subordinates[KeptAt(subordinates, k)]]_vars

\* a server dropped by remove_discovered_subordinates was admitted again by
\* the discover_subordinates that followed
C19_Witness ==
    /\ call.op = "discover"
    /\ \E i \in DOMAIN subordinates, j \in DOMAIN snap.subordinates :
          /\ subordinates[i].discovered
          /\ snap.subordinates[j].discovered
          /\ snap.subordinates[j].host = subordinates[i].host

\* C20: with skip_conn_err, construction does not raise for a subordinate
\* and yields one record per configured subordinate, in configuration
\* order, with instance None for the unreachable ones; without it, an
\* unreachable subordinate raises; an unreachable main that was given
\* always raises.
C20_ConstructionTolerance ==
    call.op = "init" =>
        LET base == SelectSeq(subordinates, LAMBDA d : ~d.discovered)
            main_down == call.candidate # NoSrv /\ ~up[call.candidate]
            sub_down == \E i \in DOMAIN call.candidates : ~up[call.candidates[i]]
        IN  /\ pc = "failed" <=> (main_down \/ (call.strict /\ sub_down))
            /\ pc = "failed" => ret.kind = "raise"
            /\ pc # "failed" =>
                  /\ main = call.candidate
                  /\ Len(base) = Len(call.candidates)
                  /\ SubSeq(subordinates, 1, Len(base)) = base
                  /\ \A i \in DOMAIN base :
                        /\ base[i].host = call.candidates[i]
                        /\ base[i].instance = up[call.candidates[i]]

\* a construction with skip_conn_err recorded an unreachable subordinate
\* after a reachable one
C20_Witness ==
    /\ call.op = "init"
    /\ pc = "idle"
    /\ ~call.strict
    /\ Len(subordinates) >= 2
    /\ subordinates[1].instance
    /\ ~subordinates[2].instance
    /\ ~subordinates[2].discovered

\* ---------------------------------------------- the fan-out alone
\* RPLSynchronizer._apply_for_all_subordinates (rpl_sync.py 405-455) and
\* Topology.subordinates_gtid_subtract_executed (topology.py 1504-1550) on
\* a topology that deviates from the healthy one in at most MaxFanFaults
\* places. call.targets are the servers a call is made on, in the order of
\* the loop; hist[s] is the AsyncResult of the call on s and the state of
\* the pool thread that runs it.
MaxFanFaults == 2
FanFaults == {f \in Faults : f[2] \in {"down", "noinst", "unlisted", "lagrelay"}}

NoTask == [state |-> "none", value |-> {}]

InitFanout ==
    /\ \E F \in SetsUpTo(FanFaults, MaxFanFaults) :
          /\ InitWorld(F, TRUE)
          /\ subordinates = InitSubordinates(F)
          /\ faults = Cardinality(F)
    /\ main = 1
    /\ options = [force |-> FALSE, demote |-> FALSE, pedantic |-> FALSE, rpl_user |-> FALSE]
    /\ pc = "idle"
    /\ call = [op |-> "none", targets |-> <<>>, processes |-> 0,
               multithreading |-> FALSE, gtid_set |-> {}]
    /\ new_main = BestNone
    /\ idx = 0
    /\ ret = [kind |-> "none", val |-> <<>>]
    /\ snap = NoSnapshot
    /\ hist = [s \in Srv |-> NoTask]
    /\ runs = 0
    /\ ops = 0

\* the keys of RPLSynchronizer._subordinates: get_subordinates_dict() skips
\* the records without a live instance (topology.py 1492-1496)
SubordinatesDict == {d.host : d \in {x \in Range(subordinates) : IsAlive(x)}}

\* the hosts of the records that have an instance, in list order
\* (topology.py 1527-1529: "if subordinate:")
WithInstance ==
    LET recs == SelectSeq(subordinates, LAMBDA d : d.instance)
    IN  [i \in DOMAIN recs |-> recs[i].host]

\* ThreadPool(processes=n) of multiprocessing.pool: ValueError when n < 1
EnterFanout(op, targets, processes, multithreading, gtid_set) ==
    /\ pc = "idle"
    /\ runs < MaxRuns
    /\ runs' = runs + 1
    /\ call' = [op |-> op, targets |-> targets, processes |-> processes,
                multithreading |-> multithreading, gtid_set |-> gtid_set]
    /\ hist' = [s \in Srv |-> NoTask]
    /\ idx' = 1
    /\ IF multithreading /\ processes < 1
       THEN /\ pc' = "raised"
            /\ ret' = [kind |-> "raise", val |-> <<>>]
       ELSE /\ pc' = IF multithreading THEN "dispatch" ELSE "serial"
            /\ ret' = [kind |-> "none", val |-> <<>>]
    /\ UNCHANGED <<new_main, snap, ops, faults>>
    /\ UNCHANGED worldVars
    /\ UNCHANGED topoVars

\* _apply_for_all_subordinates(subordinates, function, multithreading)
ApplyForAllSubordinates(targets, multithreading) ==
    EnterFanout("apply_for_all", targets, Len(targets), multithreading, {})

\* Topology.subordinates_gtid_subtract_executed(gtid_set, multithreading)
SubordinatesGtidSubtractExecuted(multithreading) ==
    EnterFanout("gtid_subtract", WithInstance, Len(subordinates),
                multithreading, MainGtids)

\* what the function applied to s returns: GTID_SUBTRACT for
\* gtid_subtract_executed, the executed set for get_gtid_executed
FunctionResult(s) ==
    IF call.op = "gtid_subtract" THEN GtidSubtractToExecuted(call.gtid_set, s)
    ELSE executed[s]

\* one iteration of the loop of pool.apply_async, then pool.close()
Dispatch ==
    /\ pc = "dispatch"
    /\ IF idx <= Len(call.targets)
       THEN /\ hist' = [hist EXCEPT ![call.targets[idx]].state = "queued"]
            /\ idx' = idx + 1
            /\ pc' = pc
       ELSE /\ pc' = "join"
            /\ UNCHANGED <<hist, idx>>
    /\ UNCHANGED <<call, new_main, ret, snap, runs, ops, faults>>
    /\ UNCHANGED worldVars
    /\ UNCHANGED topoVars

\* a thread of the pool takes the task of s from the queue
WorkerStart(s) ==
    /\ hist[s].state = "queued"
    /\ Cardinality({o \in Srv : hist[o].state = "running"}) < call.processes
    /\ hist' = [hist EXCEPT ![s].state = "running"]
    /\ UNCHANGED <<pc, call, new_main, idx, ret, snap, runs, ops, faults>>
    /\ UNCHANGED worldVars
    /\ UNCHANGED topoVars

\* the call on s ends: the AsyncResult keeps what it returned, or the
\* error it raised (the query fails on a server that does not answer)
WorkerFinish(s) ==
    /\ hist[s].state = "running"
    /\ hist' = [hist EXCEPT ![s] = IF up[s]
                                   THEN [state |-> "done", value |-> FunctionResult(s)]
                                   ELSE [state |-> "failed", value |-> {}]]
    /\ UNCHANGED <<pc, call, new_main, idx, ret, snap, runs, ops, faults>>
    /\ UNCHANGED worldVars
    /\ UNCHANGED topoVars

\* a pool.join() that returns while calls are queued or running
PoolNotJoined == TRUE

\* pool.join() returns when the threads of the pool have exited, which
\* they do when no task is queued or running
PoolJoined == \A s \in Srv : hist[s].state \notin {"queued", "running"}

Join ==
    /\ pc = "join"
    /\ PoolJoined
    /\ pc' = "collect"
    /\ idx' = 1
    /\ UNCHANGED <<call, new_main, ret, snap, hist, runs, ops, faults>>
    /\ UNCHANGED worldVars
    /\ UNCHANGED topoVars

\* AsyncResult.get(): the value of the call, or its error raised again
AsyncResultGet(task) ==
    IF task.state = "failed" THEN [kind |-> "raise", val |-> <<>>]
    ELSE [kind |-> "value", val |-> task.value]

\* one iteration of "res.append((subordinate_key, thread_res.get()))", then
\* "return res"
Collect ==
    /\ pc = "collect"
    /\ IF idx <= Len(call.targets)
       THEN LET s == call.targets[idx]
                got == AsyncResultGet(hist[s])
            IN  IF got.kind = "raise"
                THEN /\ pc' = "raised"
                     /\ ret' = [kind |-> "raise", val |-> <<>>]
                     /\ idx' = idx
                ELSE /\ ret' = [ret EXCEPT !.val = Append(@, <<s, got.val>>)]
                     /\ idx' = idx + 1
                     /\ pc' = pc
       ELSE /\ pc' = "returned"
            /\ ret' = [ret EXCEPT !.kind = "list"]
            /\ idx' = idx
    /\ UNCHANGED <<call, new_main, snap, hist, runs, ops, faults>>
    /\ UNCHANGED worldVars
    /\ UNCHANGED topoVars

\* multithreading False: one iteration of the loop that calls the function
\* on each server in turn, then "return res"
Serial ==
    /\ pc = "serial"
    /\ IF idx <= Len(call.targets)
       THEN LET s == call.targets[idx]
            IN  IF up[s]
                THEN /\ ret' = [ret EXCEPT !.val = Append(@, <<s, FunctionResult(s)>>)]
                     /\ hist' = [hist EXCEPT ![s] = [state |-> "done",
                                                     value |-> FunctionResult(s)]]
                     /\ idx' = idx + 1
                     /\ pc' = pc
                ELSE /\ pc' = "raised"
                     /\ ret' = [kind |-> "raise", val |-> <<>>]
                     /\ hist' = [hist EXCEPT ![s] = [state |-> "failed", value |-> {}]]
                     /\ idx' = idx
       ELSE /\ pc' = "returned"
            /\ ret' = [ret EXCEPT !.kind = "list"]
            /\ UNCHANGED <<hist, idx>>
    /\ UNCHANGED <<call, new_main, snap, runs, ops, faults>>
    /\ UNCHANGED worldVars
    /\ UNCHANGED topoVars

NextFanout ==
    \/ \E targets \in SeqsOver(SubordinatesDict, NumServers - 1),
          multithreading \in BOOLEAN : ApplyForAllSubordinates(targets, multithreading)
    \/ \E multithreading \in BOOLEAN : SubordinatesGtidSubtractExecuted(multithreading)
    \/ Dispatch
    \/ \E s \in Srv : WorkerStart(s)
    \/ \E s \in Srv : WorkerFinish(s)
    \/ Join
    \/ Collect
    \/ Serial
    \/ \E s \in Srv : ServerDown(s)

SpecFanout == InitFanout /\ [][NextFanout]_vars

\* the caller is past pool.join(): it collects, has returned or has raised
PastJoin == call.multithreading /\ pc \in {"collect", "returned", "raised"}

\* C21: once a multithreaded fan-out is past its join no call it dispatched
\* is queued or running, and the list it returns has one entry for each
\* targeted server, in the order of the input list, holding what the call on
\* that server returned
C21_FanoutJoinsAndKeepsOrder ==
    /\ PastJoin => \A s \in Srv : hist[s].state \notin {"queued", "running"}
    /\ (call.multithreading /\ pc = "returned") =>
          /\ Len(ret.val) = Len(call.targets)
          /\ \A i \in DOMAIN ret.val :
                /\ ret.val[i][1] = call.targets[i]
                /\ hist[call.targets[i]].state = "done"
                /\ ret.val[i][2] = hist[call.targets[i]].value

\* a multithreaded fan-out over three servers has returned
C21_Witness ==
    /\ call.multithreading
    /\ pc = "returned"
    /\ Len(call.targets) = NumServers - 1
    /\ Len(ret.val) = NumServers - 1

\* C22: when the call on one server raised in its pool thread, the fan-out
\* still returns, with the results of the calls on the other servers
C22_WorkerErrorDoesNotAbort ==
    (call.multithreading /\ pc \in {"returned", "raised"}
        /\ \E s \in Srv : hist[s].state = "failed")
        => pc = "returned"

\* ---------------------------------------------- check_data_sync alone
\* RPLSynchronizer.check_data_sync (rpl_sync.py 885-1155) with the main as
\* base server and the subordinates 2..NumServers, on one database with the
\* tables 1..MaxTables of the base server. The servers deviate from exact
\* copies of the base server in at most MaxSyncFaults places. In this
\* specification cfg[s] describes the data of server s.
MaxTables == 2
MaxSyncFaults == 2
Tbl == 1..MaxTables

\* deviations of a table on a subordinate: the table is missing, its
\* definition differs, its rows differ, a replicate_ignore_table rule names it
TableFaultKinds == {"missing", "defdiff", "datadiff", "ignoretbl"}
\* deviations of a subordinate: it lacks the database, it has a database or
\* a table the base server lacks, a replicate_ignore_db rule names the
\* database, its version is below 5.6.14, its threads are stopped, it does
\* not reach the sync point within rpl_timeout
ServerFaultKinds == {"nodb", "extradb", "extratbl", "ignoredb", "oldver",
                     "inactive", "late"}
SyncFaults == ((Srv \ {1}) \X TableFaultKinds \X Tbl)
                  \cup ((Srv \ {1}) \X ServerFaultKinds \X {0})
                  \cup {<<1, "binlog_ignore_db", 0>>}

InitSync ==
    /\ \E F \in SetsUpTo(SyncFaults, MaxSyncFaults) :
          /\ cfg = [s \in Srv |->
                      [newver   |-> <<s, "oldver", 0>> \notin F,
                       db       |-> <<s, "nodb", 0>> \notin F,
                       extradb  |-> <<s, "extradb", 0>> \in F,
                       extratbl |-> <<s, "extratbl", 0>> \in F,
                       ignoredb |-> <<s, "ignoredb", 0>> \in F
                                       \/ <<s, "binlog_ignore_db", 0>> \in F,
                       late     |-> <<s, "late", 0>> \in F,
                       tbl      |-> [t \in Tbl |->
                                       [exists  |-> <<s, "missing", t>> \notin F,
                                        def     |-> IF <<s, "defdiff", t>> \in F THEN s ELSE 1,
                                        rows    |-> IF <<s, "datadiff", t>> \in F THEN s ELSE 1,
                                        ignored |-> <<s, "ignoretbl", t>> \in F]]]]
          /\ running = [s \in Srv |-> s # 1 /\ <<s, "inactive", 0>> \notin F]
          /\ faults = Cardinality(F)
    /\ up = [s \in Srv |-> TRUE]
    /\ upstream = [s \in Srv |-> IF s = 1 THEN NoSrv ELSE 1]
    /\ executed = [s \in Srv |-> MainGtids]
    /\ retrieved = [s \in Srv |-> IF s = 1 THEN {} ELSE MainGtids]
    /\ read_only = [s \in Srv |-> FALSE]
    /\ locked = [s \in Srv |-> FALSE]
    /\ main = 1
    /\ subordinates = InitSubordinates({})
    /\ options = [force |-> FALSE, demote |-> FALSE, pedantic |-> FALSE, rpl_user |-> FALSE]
    /\ pc = "idle"
    /\ call = [op |-> "none", data_to_include |-> {}, exclude_given |-> FALSE,
               data_to_exclude |-> {}]
    /\ new_main = BestNone
    /\ idx = 0
    /\ ret = [kind |-> "none", val |-> 0]
    /\ snap = NoSnapshot
    /\ hist = [t \in Tbl |-> [missing |-> {}, task |-> <<>>, compared |-> {}]]
    /\ runs = 0
    /\ ops = 0

\* subordinates_except_base, in list order
SubordinatesExceptBase ==
    LET recs == SelectSeq(subordinates, LAMBDA d : d.host # main)
    IN  [i \in DOMAIN recs |-> recs[i].host]

\* _is_rpl_filtered(db_name, subordinate=s), s = NoSrv for the main's rules
IsRplFilteredDb(s) == cfg[IF s = NoSrv THEN main ELSE s].ignoredb

\* _is_rpl_filtered(db_name, tbl_name, subordinate=s)
IsRplFilteredTable(t, s) == cfg[s].tbl[t].ignored

\* a table of the base server that the include / exclude lists leave out of
\* the loop over db.get_next_object() (lines 1085-1094)
SkippedByLists(t, data_to_include, data_to_exclude) ==
    \/ data_to_include # {} /\ t \notin data_to_include
    \/ t \in data_to_exclude

\* subordinates_to_check of the database: the subordinates that have it and
\* whose rules do not filter it (lines 1005-1011)
SubordinatesToCheck ==
    SelectSeq(SubordinatesExceptBase, LAMBDA s : ~IsRplFilteredDb(s) /\ cfg[s].db)

\* the subordinates reported as "NOT on server" for table t (lines 1106-1115)
MissingOn(t) ==
    {s \in Range(SubordinatesToCheck) :
        ~IsRplFilteredTable(t, s) /\ ~cfg[s].tbl[t].exists}

\* the subordinates reported with a different definition (lines 1123-1137)
DefinitionDiffers(t) ==
    {s \in Range(SubordinatesToCheck) :
        /\ ~IsRplFilteredTable(t, s)
        /\ cfg[s].tbl[t].exists
        /\ cfg[s].tbl[t].def # cfg[main].tbl[t].def}

\* a checksum task that keeps the subordinates lacking the table
ChecksumTaskOfAll(t) ==
    SelectSeq(SubordinatesToCheck,
              LAMBDA s : /\ ~IsRplFilteredTable(t, s)
                         /\ s \notin DefinitionDiffers(t))

\* checksum_task of table t (lines 1139-1140)
ChecksumTask(t) ==
    SelectSeq(SubordinatesToCheck,
              LAMBDA s : /\ ~IsRplFilteredTable(t, s)
                         /\ s \notin MissingOn(t)
                         /\ s \notin DefinitionDiffers(t))

\* Subordinate.wait_checksum_and_start for an active subordinate,
\* checksum_table for one that is not: (checksum, None), or (None, "timeout
\* catching up with main") when the SQL thread is not seen stopped in time
ChecksumOf(t, s) ==
    IF running[s] /\ cfg[s].late THEN [sum |-> NoSrv, skipped |-> TRUE]
    ELSE [sum |-> cfg[s].tbl[t].rows, skipped |-> FALSE]

\* the servers of the task whose checksum is compared with the base
\* server's (lines 866-881)
Compared(t, task) == {s \in Range(task) : ~ChecksumOf(t, s).skipped}

\* _check_table_data_sync(table, subordinates): the number of [DIFF] rows
CheckTableDataSync(t, task) ==
    Cardinality({s \in Compared(t, task) :
                    ChecksumOf(t, s).sum # cfg[main].tbl[t].rows})

\* the issues counted for table t of the base server
TableIssues(t) ==
    Cardinality(MissingOn(t)) + Cardinality(DefinitionDiffers(t))
        + (IF ChecksumTask(t) # <<>> THEN CheckTableDataSync(t, ChecksumTask(t)) ELSE 0)

RECURSIVE SumOver(_, _)
SumOver(S, f) ==
    IF S = {} THEN 0
    ELSE LET x == CHOOSE y \in S : TRUE IN f[x] + SumOver(S \ {x}, f)

\* the issues counted before the loop over the tables: databases found on a
\* subordinate only (lines 976-990), the database missing on a subordinate
\* (1074-1077), tables found on a subordinate only (1055-1073)
DatabaseIssues(db_checked) ==
    LET others == Range(SubordinatesExceptBase)
        unfiltered == {s \in others : ~IsRplFilteredDb(s)}
    IN  Cardinality({s \in others : cfg[s].extradb})
        + (IF db_checked
           THEN Cardinality({s \in unfiltered : ~cfg[s].db})
                + Cardinality({s \in unfiltered : cfg[s].db /\ cfg[s].extratbl})
           ELSE 0)

\* check_data_sync(options, data_to_include, data_to_exclude) for the one
\* database: data_to_include is the set of tables named for it (empty: all),
\* data_to_exclude likewise, exclude_given with an empty set excluding the
\* whole database. hist keeps, per table, who was reported missing, the
\* checksum task and whose checksum was compared.
CheckDataSync(data_to_include, exclude_given, data_to_exclude) ==
    /\ pc = "idle"
    /\ runs < MaxRuns
    /\ ~exclude_given => data_to_exclude = {}
    /\ runs' = runs + 1
    /\ call' = [op |-> "check_data_sync", data_to_include |-> data_to_include,
                exclude_given |-> exclude_given, data_to_exclude |-> data_to_exclude]
    /\ LET db_checked == /\ ~(exclude_given /\ data_to_exclude = {})
                         /\ ~IsRplFilteredDb(NoSrv)
           tables == IF db_checked /\ SubordinatesToCheck # <<>>
                     THEN {t \in Tbl : ~SkippedByLists(t, data_to_include, data_to_exclude)}
                     ELSE {}
       IN  IF \E s \in Hosts(subordinates) : ~cfg[s].newver
           THEN /\ pc' = "raised"
                /\ ret' = [kind |-> "raise", val |-> 0]
                /\ UNCHANGED hist
           ELSE /\ pc' = "returned"
                /\ ret' = [kind |-> "count",
                           val |-> DatabaseIssues(db_checked)
                                     + SumOver(tables, [t \in Tbl |-> TableIssues(t)])]
                /\ hist' = [t \in Tbl |->
                              IF t \in tables
                              THEN [missing |-> MissingOn(t), task |-> ChecksumTask(t),
                                    compared |-> Compared(t, ChecksumTask(t))]
                              ELSE hist[t]]
    /\ UNCHANGED <<new_main, idx, snap, ops, faults>>
    /\ UNCHANGED worldVars
    /\ UNCHANGED topoVars

NextSync ==
    \E data_to_include \in SUBSET Tbl, exclude_given \in BOOLEAN,
       data_to_exclude \in SUBSET Tbl :
        CheckDataSync(data_to_include, exclude_given, data_to_exclude)

SpecSync == InitSync /\ [][NextSync]_vars

\* table t of the base server is left out of the comparison with s by the
\* lists of the call or by replication filters
LeftOut(t, s) ==
    \/ SkippedByLists(t, call.data_to_include, call.data_to_exclude)
    \/ call.exclude_given /\ call.data_to_exclude = {}
    \/ IsRplFilteredDb(NoSrv)
    \/ IsRplFilteredDb(s)
    \/ IsRplFilteredTable(t, s)

\* s has table t as the base server has it
SameAsBase(t, s) ==
    /\ cfg[s].db
    /\ cfg[s].tbl[t].exists
    /\ cfg[s].tbl[t].def = cfg[main].tbl[t].def
    /\ cfg[s].tbl[t].rows = cfg[main].tbl[t].rows

\* C23: check_data_sync returns 0 only if every table of the base server
\* that is not left out is, on every other checked server, present with
\* the same definition and the same checksum
C23_ZeroMeansConsistent ==
    (pc = "returned" /\ ret.val = 0) =>
        \A t \in Tbl, s \in Range(SubordinatesExceptBase) :
            LeftOut(t, s) \/ SameAsBase(t, s)

\* the same for the subordinates that reach the sync point in time or are
\* not active
C23_ZeroMeansConsistentUnlessSkipped ==
    (pc = "returned" /\ ret.val = 0) =>
        \A t \in Tbl, s \in Range(SubordinatesExceptBase) :
            \/ LeftOut(t, s)
            \/ SameAsBase(t, s)
            \/ (running[s] /\ cfg[s].late)

\* table t was walked by the call for subordinate s: the lists and the
\* rules leave it in and s has the database
Walked(t, s) == pc = "returned" /\ ~LeftOut(t, s) /\ cfg[s].db

\* C24: a table of the base server that a subordinate lacks is reported
\* missing for that subordinate, once (it is the only issue when it is the
\* only deviation), the subordinate is not in the checksum task of the
\* table, and the subordinates that have the table as the base server
\* defines it are in the task
C24_MissingTableNotChecksummed ==
    \A t \in Tbl, s \in Range(SubordinatesExceptBase) :
        (Walked(t, s) /\ ~cfg[s].tbl[t].exists) =>
            /\ s \in hist[t].missing
            /\ s \notin Range(hist[t].task)
            /\ s \notin hist[t].compared
            /\ faults = 1 => ret.val = 1
            /\ \A r \in Range(SubordinatesExceptBase) :
                  (Walked(t, r) /\ cfg[r].tbl[t].exists
                      /\ cfg[r].tbl[t].def = cfg[main].tbl[t].def)
                  => r \in Range(hist[t].task)

\* a table is missing on one subordinate and the others were compared
C24_Witness ==
    \E t \in Tbl, s \in Range(SubordinatesExceptBase) :
        /\ Walked(t, s)
        /\ ~cfg[s].tbl[t].exists
        /\ hist[t].missing = {s}
        /\ hist[t].compared = Range(SubordinatesExceptBase) \ {s}
        /\ ret.val = 1

\* ---------------------------------------------- check_privileges alone
\* Topology.check_privileges (topology.py 1552-1621) on a topology built
\* with or without a main; the users of the servers deviate from fully
\* privileged ones in at most MaxPrivFaults places. In this specification
\* cfg[s] describes the user of the connection to server s.
MaxPrivFaults == 2
PrivFaults == (Srv \X {"nosuper", "noother"})
                  \cup ((Srv \ {1}) \X {"noinst", "unlisted"})

InitPrivileges ==
    /\ \E F \in SetsUpTo(PrivFaults, MaxPrivFaults) :
          /\ cfg = [s \in Srv |-> [super |-> <<s, "nosuper">> \notin F,
                                   other |-> <<s, "noother">> \notin F]]
          /\ subordinates = InitSubordinates(F)
          /\ faults = Cardinality(F)
    /\ main \in {1, NoSrv}
    /\ up = [s \in Srv |-> TRUE]
    /\ upstream = [s \in Srv |-> IF s = 1 THEN NoSrv ELSE 1]
    /\ running = [s \in Srv |-> s # 1]
    /\ executed = [s \in Srv |-> MainGtids]
    /\ retrieved = [s \in Srv |-> IF s = 1 THEN {} ELSE MainGtids]
    /\ read_only = [s \in Srv |-> FALSE]
    /\ locked = [s \in Srv |-> FALSE]
    /\ options = [force |-> FALSE, demote |-> FALSE, pedantic |-> FALSE, rpl_user |-> FALSE]
    /\ pc = "idle"
    /\ call = [op |-> "none", failover |-> FALSE, skip_main |-> FALSE,
               candidates |-> <<>>]
    /\ new_main = BestNone
    /\ idx = 0
    /\ ret = [kind |-> "none", val |-> <<>>]
    /\ snap = NoSnapshot
    /\ hist = NoHist
    /\ runs = 0
    /\ ops = 0

\* the servers collected by lines 1562-1593: the subordinates with an
\* instance when the main is skipped; else, and only when there is a main,
\* the main and then those subordinates; then the candidates
PrivilegeServers(skip_main, candidates) ==
    (IF skip_main THEN WithInstance
     ELSE IF main # NoSrv THEN <<main>> \o WithInstance
     ELSE <<>>) \o candidates

\* lines 1598-1614: without failover SUPER is required, with it SUPER and
\* seven other privileges
LacksPrivilege(s, failover) ==
    ~cfg[s].super \/ (failover /\ ~cfg[s].other)

\* check_privileges(failover, skip_main) with the candidates option: the
\* hosts of the tuples of the returned list
CheckPrivileges(failover, skip_main, candidates) ==
    SelectSeq(PrivilegeServers(skip_main, candidates),
              LAMBDA s : LacksPrivilege(s, failover))

CallCheckPrivileges(failover, skip_main, candidates) ==
    /\ pc = "idle"
    /\ runs < MaxRuns
    /\ runs' = runs + 1
    /\ call' = [op |-> "check_privileges", failover |-> failover,
                skip_main |-> skip_main, candidates |-> candidates]
    /\ pc' = "returned"
    /\ ret' = [kind |-> "list", val |-> CheckPrivileges(failover, skip_main, candidates)]
    /\ UNCHANGED <<new_main, idx, snap, hist, ops, faults>>
    /\ UNCHANGED worldVars
    /\ UNCHANGED topoVars

NextPrivileges ==
    \E failover \in BOOLEAN, skip_main \in BOOLEAN,
       candidates \in SeqsOver(Srv \ {1}, MaxCandidates) :
        CallCheckPrivileges(failover, skip_main, candidates)

SpecPrivileges == InitPrivileges /\ [][NextPrivileges]_vars

\* the connected servers of the topology whose user lacks a privilege the
\* call requires: the main unless skipped, the subordinates with an
\* instance, the candidates
LackingServers ==
    {s \in (IF call.skip_main \/ main = NoSrv THEN {} ELSE {main})
              \cup Range(WithInstance) \cup Range(call.candidates) :
        LacksPrivilege(s, call.failover)}

\* C25: check_privileges returns, without raising, a list with a finding
\* for every connected server whose user lacks a required privilege, and
\* the empty list only if there is no such server
C25_FindingForEveryLackingServer ==
    pc = "returned" =>
        /\ ret.kind = "list"
        /\ \A s \in LackingServers : \E i \in DOMAIN ret.val : ret.val[i] = s
        /\ ret.val = <<>> => LackingServers = {}

\* the same when the topology has a main or the main is skipped
C25_FindingForEveryLackingServerWithMain ==
    (pc = "returned" /\ (main # NoSrv \/ call.skip_main)) =>
        /\ ret.kind = "list"
        /\ \A s \in LackingServers : \E i \in DOMAIN ret.val : ret.val[i] = s
        /\ ret.val = <<>> => LackingServers = {}

\* Topology.get_health, lines 1380-1394, shown by execute_command after a
\* switchover (rpl_admin.py 669-671): a row "Binary log and Relay log
\* filters differ." for a subordinate whose filters differ from the main's
HealthReportsFilters ==
    \E i \in DOMAIN subordinates :
        /\ Reachable(subordinates[i])
        /\ IsConfiguredForMain(subordinates[i].host, main)
        /\ ~CheckFilters(main, subordinates[i].host)

\* the filter comparison of _check_candidate_eligibility is made (lines
\* 743-752), and its failure reported, only when force is not set
EligibilityReportsFilters == ~options.force /\ ~CheckFilters(snap.main, call.candidate)

\* a switchover with force has completed although the filters of the old
\* main and of the candidate differ
ForcedPastFilters ==
    /\ pc = "done"
    /\ call.op = "switchover"
    /\ options.force
    /\ ~CheckFilters(snap.main, call.candidate)

\* C26: a switchover with force that goes on although the filters of the
\* main and the candidate differ reports the filter mismatch
C26_ForcedSwitchoverWarnsOfFilters ==
    ForcedPastFilters => (EligibilityReportsFilters \/ HealthReportsFilters)

\* the statements of Topology.switchover after its checks, in the order of
\* lines 1867-2014
SwitchoverOrder ==
    <<"s_before", "s_fence", "s_wait", "s_stop", "s_unfence", "s_demote",
      "s_swap", "s_reset", "s_switch", "s_start", "s_after", "s_verify", "done">>

\* the position of label in SwitchoverOrder, 0 when it is not in it
StepOf(label) ==
    IF \E k \in DOMAIN SwitchoverOrder : SwitchoverOrder[k] = label
    THEN CHOOSE k \in DOMAIN SwitchoverOrder : SwitchoverOrder[k] = label
    ELSE 0

\* the reachable subordinates of the list after the step
ReachableAfter == {subordinates'[i].host : i \in {j \in DOMAIN subordinates' :
                                                  subordinates'[j].instance
                                                  /\ up'[subordinates'[j].host]}}

\* what a step of switchover that leaves statement "from" for the next one
\* has done
SwitchoverStepEffect(from) ==
    CASE from = "s_fence"   -> locked'[main] /\ read_only'[main]
      [] from = "s_stop"    -> \A s \in ReachableAfter : ~running'[s]
      [] from = "s_unfence" -> ~locked'[main] /\ ~read_only'[main]
      [] from = "s_demote"  -> options.demote <=> snap.main \in Hosts(subordinates')
      [] from = "s_swap"    -> main' = call.candidate
      [] from = "s_reset"   -> ~running'[main]
      [] from = "s_switch"  -> \A s \in ReachableAfter : upstream'[s] = main
      [] from = "s_start"   -> \A s \in ReachableAfter : running'[s]
      [] OTHER -> TRUE

\* C27: a switchover passes through its statements in this order: the
\* before script, the write fence, the waits for the subordinates, the stop
\* of the subordinates, the release of the fence, the demotion, the role
\* swap, the reset of the new main, the re-pointing, the start of the
\* subordinates, the after script, the verification; each statement is
\* left for the next one only, with its effect in place, and the servers
\* and the topology change only in the statement that is to change them
C27_SwitchoverStepsInOrder ==
    [][call.op = "switchover" /\ StepOf(pc) \in 1..12 =>
          /\ pc' \in {pc, SwitchoverOrder[StepOf(pc) + 1], "aborted"}
          /\ pc' = SwitchoverOrder[StepOf(pc) + 1] => SwitchoverStepEffect(pc)
          /\ <<locked, read_only>>' # <<locked, read_only>> => pc \in {"s_fence", "s_unfence"}
          /\ upstream' # upstream => pc \in {"s_reset", "s_switch"}
          /\ running' # running => pc \in {"s_stop", "s_demote", "s_reset", "s_start"}
          /\ <<main, subordinates>>' # <<main, subordinates>> => pc \in {"s_demote", "s_swap"}
      ]_vars

\* a switchover with demotion has completed and all subordinates follow
C27_Witness ==
    /\ pc = "done"
    /\ call.op = "switchover"
    /\ options.demote
    /\ ret.kind = "true"
    /\ snap.main \in Hosts(subordinates)

\* the fence on the old main of a running switchover is in place
Fenced == locked[snap.main] /\ read_only[snap.main]

\* C28 as stated: the write fence is held while the subordinates are
\* re-pointed to the new main
C28_FenceHeldDuringRepoint ==
    [][(call.op = "switchover" /\ pc = "s_switch" /\ upstream' # upstream)
          => Fenced]_vars

\* C28, for the window of the code: while a switchover runs the write
\* fence on the old main is held from the fencing statement, through the
\* waits for the subordinates and the stop of the subordinates, until the
\* statement that releases it; it is released before the demotion, the
\* role swap and the re-pointing, during which the old main is not fenced
C28_FenceHeldFromWaitsToStop ==
    (call.op = "switchover" /\ StepOf(pc) > 0) =>
        /\ pc \in {"s_wait", "s_stop", "s_unfence"} => Fenced
        /\ pc \notin {"s_wait", "s_stop", "s_unfence"} =>
              ~locked[snap.main] /\ ~read_only[snap.main]

\* a subordinate has been re-pointed and the old main is not fenced
C28_Witness ==
    /\ call.op = "switchover"
    /\ pc = "s_switch"
    /\ ~locked[snap.main]
    /\ \E i \in DOMAIN subordinates :
          /\ subordinates[i].host # snap.main
          /\ upstream[subordinates[i].host] = call.candidate

\* this step is the before script of a run ending it: its exit code
\* reached script_threshold
BeforeScriptAborts(label) == pc = label /\ pc' = "aborted"

\* C29: when the before script aborts a switchover or a failover, the main
\* and the subordinates list of the Topology object are those the run found
C29_HookAbortLeavesTopology ==
    [][(BeforeScriptAborts("s_before") \/ BeforeScriptAborts("f_before"))
          => (main' = snap.main /\ subordinates' = snap.subordinates)]_vars

\* the same for switchover alone
C29_SwitchoverHookAbortLeavesTopology ==
    [][BeforeScriptAborts("s_before")
          => (main' = snap.main /\ subordinates' = snap.subordinates)]_vars

\* ---------------------------------------- Topology._check_all_subordinates
\* the subordinates as step 12 can leave them: started and connected to the
\* new main (server 1), or one of up to MaxVerifyFaults deviations
MaxVerifyFaults == 2

VerifyFaults ==
    (Srv \ {1}) \X {"unlisted", "noinst", "down", "noio", "othermain", "nostatus"}

\* another main than the new one
OtherMain(s) == IF s = 2 THEN 3 ELSE 2

InitVerify ==
    /\ \E F \in SetsUpTo(VerifyFaults, MaxVerifyFaults) :
          /\ subordinates = InitSubordinates(F)
          /\ up = [s \in Srv |-> <<s, "down">> \notin F]
          /\ upstream = [s \in Srv |->
                            IF s = 1 \/ <<s, "nostatus">> \in F THEN NoSrv
                            ELSE IF <<s, "othermain">> \in F THEN OtherMain(s)
                            ELSE 1]
          /\ running = [s \in Srv |-> /\ s # 1
                                      /\ <<s, "nostatus">> \notin F
                                      /\ <<s, "noio">> \notin F]
    /\ main = 1
    /\ cfg = [s \in Srv |-> [gtid |-> TRUE]]
    /\ executed = [s \in Srv |-> MainGtids]
    /\ retrieved = [s \in Srv |-> IF s = 1 THEN {} ELSE MainGtids]
    /\ read_only = [s \in Srv |-> FALSE]
    /\ locked = [s \in Srv |-> FALSE]
    /\ options = [force |-> FALSE, demote |-> FALSE, pedantic |-> FALSE, rpl_user |-> FALSE]
    /\ pc = "idle"
    /\ call = [op |-> "none", iteration |-> 0, subordinate_errors |-> <<>>]
    /\ new_main = BestNone
    /\ idx = 0
    /\ ret = NoRet
    /\ snap = NoSnapshot
    /\ hist = [polls |-> [s \in Srv |-> 0], exhausted |-> {}]
    /\ runs = 0
    /\ ops = 0
    /\ faults = 0

\* the IO thread of a started subordinate reaches its main:
\* Slave_IO_Running goes from Connecting to Yes
IoThreadConnects(s) ==
    /\ pc \notin {"idle", "done", "aborted"}
    /\ up[s] /\ upstream[s] # NoSrv /\ ~running[s]
    /\ running' = [running EXCEPT ![s] = TRUE]
    /\ UNCHANGED <<cfg, up, upstream, executed, retrieved, read_only, locked>>
    /\ UNCHANGED topoVars
    /\ UNCHANGED runVars

\* line 1163
CallCheckAllSubordinates ==
    /\ pc = "idle"
    /\ pc' = "v_next"
    /\ idx' = 1
    /\ call' = [op |-> "check_all_subordinates", iteration |-> 0,
                subordinate_errors |-> <<>>]
    /\ runs' = runs + 1
    /\ UNCHANGED <<new_main, ret, snap, hist, ops, faults>>
    /\ UNCHANGED worldVars
    /\ UNCHANGED topoVars

\* lines 1164-1172: the next subordinate_dict of the list; a subordinate
\* without an instance or not alive is skipped
VerifyNext ==
    /\ pc = "v_next"
    /\ IF idx > Len(subordinates)
       THEN pc' = "v_report" /\ UNCHANGED <<idx, call>>
       ELSE IF ~Reachable(subordinates[idx])
       THEN pc' = pc /\ idx' = idx + 1 /\ UNCHANGED call
       ELSE /\ pc' = "v_poll"
            /\ call' = [call EXCEPT !.iteration = 0]
            /\ UNCHANGED idx
    /\ UNCHANGED <<new_main, ret, snap, hist, runs, ops, faults>>
    /\ UNCHANGED worldVars
    /\ UNCHANGED topoVars

\* lines 1173-1192, one evaluation of the while condition and, when it
\* holds, one pass of the body; time.sleep(1) ends the pass that found the
\* subordinate not connected. A query on a server that went down raises.
VerifyPoll ==
    /\ pc = "v_poll"
    /\ LET s == subordinates[idx].host
           checked == IF up[s] THEN CheckSubordinateConnection(s, main) ELSE "raise"
           res == checked = "ok"
           polled == [hist EXCEPT !.polls[s] = @ + 1]
       IN  IF ~(call.iteration < PingTime)
           THEN /\ pc' = "v_next"
                /\ idx' = idx + 1
                /\ hist' = IF call.iteration = PingTime
                           THEN [hist EXCEPT !.exhausted = @ \cup {s}]
                           ELSE hist
                /\ UNCHANGED <<call, ret>>
           ELSE IF checked = "raise"
           THEN /\ pc' = "aborted"
                /\ ret' = [kind |-> "raise", val |-> NoSrv]
                /\ hist' = polled
                /\ UNCHANGED <<call, idx>>
           ELSE /\ pc' = pc
                /\ hist' = polled
                /\ call' = IF ~res /\ call.iteration >= PingTime
                           THEN [call EXCEPT !.subordinate_errors = Append(@, s)]
                           ELSE IF res
                           THEN [call EXCEPT !.iteration = PingTime + 1]
                           ELSE [call EXCEPT !.iteration = @ + 1]
                /\ UNCHANGED <<idx, ret>>
    /\ UNCHANGED <<new_main, snap, runs, ops, faults>>
    /\ UNCHANGED worldVars
    /\ UNCHANGED topoVars

\* lines 1197-1208
VerifyReport ==
    /\ pc = "v_report"
    /\ pc' = "done"
    /\ ret' = [kind |-> IF Len(call.subordinate_errors) > 0 THEN "false" ELSE "true",
               val |-> NoSrv]
    /\ UNCHANGED <<call, new_main, idx, snap, hist, runs, ops, faults>>
    /\ UNCHANGED worldVars
    /\ UNCHANGED topoVars

NextVerify ==
    \/ CallCheckAllSubordinates
    \/ VerifyNext
    \/ VerifyPoll
    \/ VerifyReport
    \/ \E s \in Srv \ {1} : IoThreadConnects(s)
    \/ \E s \in Srv \ {1} : ServerDown(s)

SpecVerify == InitVerify /\ [][NextVerify]_vars

\* C30: when the verification returns, every subordinate whose polls ran out
\* while it was not connected to the new main is in subordinate_errors, and
\* the verification returns False if there is one
C30_ExhaustedReplicaIsReported ==
    pc = "done" =>
        \A s \in hist.exhausted :
            /\ s \in Range(call.subordinate_errors)
            /\ ret.kind = "false"

\* no subordinate is polled more than pingtime times, and the verification
\* changes neither the main nor the upstream of a server
C30_AtMostPingTimePolls ==
    /\ \A s \in Srv : hist.polls[s] <= PingTime
    /\ main = 1
    /\ \A s \in Srv : upstream[s] \in {NoSrv, 1, OtherMain(s)}

\* the verification never returns False
C30_VerificationNeverFalse == ret.kind # "false"

\* ------------------------------------------------- the list after the swap
\* the list the run found without the records of the candidate
WithoutCandidate ==
    SelectSeq(snap.subordinates, LAMBDA d : d.host # call.candidate)

\* C31: after a successful switchover with demote the old main is in the
\* subordinates list, has the new main as upstream and is started, and the
\* list is the one the run found minus the candidate plus the old main;
\* without demote the old main is neither main nor in the list and the list
\* is the one the run found minus the candidate
C31_ListAfterSwitchover ==
    SwitchoverSucceeded =>
        IF options.demote
        THEN /\ subordinates
                  = Append(WithoutCandidate, SubordinateDict(snap.main, TRUE, FALSE))
             /\ upstream[snap.main] = main
             /\ running[snap.main]
        ELSE /\ snap.main # main
             /\ snap.main \notin Hosts(subordinates)
             /\ subordinates = WithoutCandidate

\* the same when the record of the candidate has an instance and the old main
\* still answers when the run ends
C31_ListAfterSwitchoverOfListed ==
    (/\ SwitchoverSucceeded
     /\ \A i \in DOMAIN snap.subordinates :
           snap.subordinates[i].host = call.candidate => snap.subordinates[i].instance
     /\ up[snap.main]) =>
        IF options.demote
        THEN /\ subordinates
                  = Append(WithoutCandidate, SubordinateDict(snap.main, TRUE, FALSE))
             /\ upstream[snap.main] = main
             /\ running[snap.main]
        ELSE /\ snap.main # main
             /\ snap.main \notin Hosts(subordinates)
             /\ subordinates = WithoutCandidate

\* ------------------------------------------- errant transactions and force
\* this step is RplCommands._switchover up to its call of Topology.switchover
SwitchoverCommandStep == pc = "idle" /\ call'.op = "switchover"

\* this step is RplCommands._failover up to its call of Topology.failover
FailoverCommandStep == pc = "idle" /\ call'.op = "failover" /\ call'.stop_on_error

\* the command found errant transactions on a GTID-enabled topology
ErrantFound == GtidEnabled /\ FindErrantTransactions(subordinates) # <<>>

\* the command went past its errant transactions check: it called the
\* topology engine, or _check_main_info_type ended it
PastErrantCheck ==
    \/ pc' \in {"s_prereq", "f_find"}
    \/ pc' = "aborted" /\ hist'.abort = "infotype"

\* C32: switchover and command-line failover that find errant transactions
\* on a GTID-enabled topology abort before the topology engine is called
\* unless force is set, and go on when force is set; switchover on a
\* topology that is not GTID-enabled goes on without the check
C32_ErrantAbortsUnlessForce ==
    [][/\ ((SwitchoverCommandStep \/ FailoverCommandStep) /\ ErrantFound)
            => IF options.force THEN PastErrantCheck ELSE pc' = "aborted"
       /\ (SwitchoverCommandStep /\ ~GtidEnabled) => PastErrantCheck]_vars

\* a switchover was aborted because of errant transactions
C32_Witness ==
    /\ call.op = "switchover"
    /\ pc = "aborted"
    /\ hist.abort = "errant"
    /\ ~options.force
    /\ FindErrantTransactions(subordinates) # <<>>

\* a forced switchover and a forced failover went on with errant transactions
C32_ForcedWitness ==
    /\ call.op \in {"switchover", "failover"}
    /\ pc \in {"s_before", "f_prep"}
    /\ options.force
    /\ GtidEnabled
    /\ FindErrantTransactions(subordinates) # <<>>

\* ------------------------------------ RPLSynchronizer._check_table_data_sync
\* one table is checked on the subordinates 2..NumServers, with server 1 as
\* main or without a main (the base server is then one of the subordinates).
\* running[s] is the SQL thread of s, cfg[s].io its IO thread, cfg[s].until
\* is set while the SQL thread runs under START SLAVE UNTIL, locked[main] is
\* the READ lock of the session on the table.
MaxTableFaults == 2
MaxRplTimeout == 2
MaxInterval == 2

TableFaults == (Srv \ {1}) \X {"noio", "nosql"}

NoWorker == [at |-> "none", tick |-> 0, skip_checksum |-> FALSE]

NoTableHist ==
    [stopped |-> FALSE, until |-> FALSE, observed |-> FALSE, sum |-> "none",
     sql_at_sum |-> FALSE, restarted |-> FALSE]

InitTable ==
    /\ \E F \in SetsUpTo(TableFaults, MaxTableFaults) :
          /\ cfg = [s \in Srv |-> [io |-> s # 1 /\ <<s, "noio">> \notin F,
                                   until |-> FALSE]]
          /\ running = [s \in Srv |-> s # 1 /\ <<s, "nosql">> \notin F]
    /\ main \in {1, NoSrv}
    /\ up = [s \in Srv |-> TRUE]
    /\ upstream = [s \in Srv |-> IF s = 1 THEN NoSrv ELSE 1]
    /\ executed = [s \in Srv |-> MainGtids]
    /\ retrieved = [s \in Srv |-> IF s = 1 THEN {} ELSE MainGtids]
    /\ read_only = [s \in Srv |-> FALSE]
    /\ locked = [s \in Srv |-> FALSE]
    /\ subordinates = InitSubordinates({})
    /\ options = [force |-> FALSE, demote |-> FALSE, pedantic |-> FALSE, rpl_user |-> FALSE]
    /\ pc = "idle"
    /\ call = [op |-> "none", rpl_timeout |-> 0, interval |-> 1,
               active_subordinates |-> <<>>, not_active_subordinates |-> <<>>,
               error |-> FALSE, success |-> FALSE,
               worker |-> [s \in Srv |-> NoWorker]]
    /\ new_main = BestNone
    /\ idx = 0
    /\ ret = NoRet
    /\ snap = NoSnapshot
    /\ hist = [s \in Srv |-> NoTableHist]
    /\ runs = 0
    /\ ops = 0
    /\ faults = 0

\* the keys of the list, in order
TableSubordinates == [i \in 1..(NumServers - 1) |-> i + 1]

\* a query sent to one of the servers of the list raises
SomeDown(keys) == \E i \in DOMAIN keys : ~up[keys[i]]

\* the servers of the list that answer
Answering(keys) == {keys[i] : i \in {j \in DOMAIN keys : up[keys[j]]}}

\* the step ends the method with an exception
TableRaise ==
    /\ pc' = "aborted"
    /\ ret' = [kind |-> "raise", val |-> NoSrv]

\* the SQL thread of s started with UNTIL reaches the sync point and stops
ReachSyncPoint(s) ==
    /\ up[s] /\ running[s] /\ cfg[s].until
    /\ running' = [running EXCEPT ![s] = FALSE]
    /\ cfg' = [cfg EXCEPT ![s].until = FALSE]
    /\ UNCHANGED <<up, upstream, executed, retrieved, read_only, locked>>
    /\ UNCHANGED topoVars
    /\ UNCHANGED runVars

\* lines 777-785: _split_active_subordinates asks every subordinate for its
\* thread states
CallCheckTableDataSync(rpl_timeout, interval) ==
    /\ pc = "idle"
    /\ runs < MaxRuns
    /\ runs' = runs + 1
    /\ IF SomeDown(TableSubordinates)
       THEN /\ TableRaise
            /\ call' = [call EXCEPT !.op = "check_table_data_sync"]
       ELSE /\ call' = [call EXCEPT
                  !.op = "check_table_data_sync",
                  !.rpl_timeout = rpl_timeout,
                  !.interval = interval,
                  !.active_subordinates =
                      SelectSeq(TableSubordinates, LAMBDA s : cfg[s].io /\ running[s]),
                  !.not_active_subordinates =
                      SelectSeq(TableSubordinates, LAMBDA s : ~(cfg[s].io /\ running[s]))]
            /\ pc' = IF main # NoSrv THEN "t_lock"
                     ELSE IF \E s \in Srv \ {1} : cfg[s].io /\ running[s] THEN "n_stop"
                     ELSE "t_notsync"
            /\ UNCHANGED ret
    /\ UNCHANGED <<new_main, idx, snap, hist, ops, faults>>
    /\ UNCHANGED worldVars
    /\ UNCHANGED topoVars

\* lines 787-796: get_server_uuid, then LOCK TABLES ... READ on the main
TableLock ==
    /\ pc = "t_lock"
    /\ IF ~up[main]
       THEN TableRaise /\ UNCHANGED locked
       ELSE /\ locked' = [locked EXCEPT ![main] = TRUE]
            /\ pc' = "t_point"
            /\ UNCHANGED ret
    /\ UNCHANGED <<call, new_main, idx, snap, hist, runs, ops, faults>>
    /\ UNCHANGED <<cfg, up, upstream, running, executed, retrieved, read_only>>
    /\ UNCHANGED topoVars

\* lines 798-801 and 657-661: the sync point is the last GTID of the main
TablePoint ==
    /\ pc = "t_point"
    /\ IF ~up[main]
       THEN /\ call' = [call EXCEPT !.error = TRUE]
            /\ pc' = "t_unlock"
       ELSE /\ pc' = IF call.active_subordinates # <<>> THEN "t_stop" ELSE "t_sum"
            /\ UNCHANGED call
    /\ UNCHANGED <<new_main, idx, ret, snap, hist, runs, ops, faults>>
    /\ UNCHANGED worldVars
    /\ UNCHANGED topoVars

\* _sync_subordinates, lines 694-696: STOP SLAVE SQL_THREAD on every
\* subordinate of the list; the exception of a worker is raised after all
\* workers ended
StopSqlThreads(keys) ==
    /\ running' = [s \in Srv |-> IF s \in Answering(keys) THEN FALSE ELSE running[s]]
    /\ cfg' = [s \in Srv |-> IF s \in Answering(keys)
                             THEN [cfg[s] EXCEPT !.until = FALSE] ELSE cfg[s]]
    /\ hist' = [s \in Srv |-> IF s \in Answering(keys)
                              THEN [hist[s] EXCEPT !.stopped = TRUE] ELSE hist[s]]

\* _sync_subordinates, lines 697-702: START SLAVE SQL_THREAD UNTIL
\* SQL_AFTER_GTIDS on every subordinate of the list
StartUntil(keys) ==
    /\ running' = [s \in Srv |-> IF s \in Answering(keys) THEN TRUE ELSE running[s]]
    /\ cfg' = [s \in Srv |-> IF s \in Answering(keys)
                             THEN [cfg[s] EXCEPT !.until = TRUE] ELSE cfg[s]]
    /\ hist' = [s \in Srv |-> IF s \in Answering(keys)
                              THEN [hist[s] EXCEPT !.until = TRUE] ELSE hist[s]]

\* lines 803-805, first call of _sync_subordinates
TableStop ==
    /\ pc = "t_stop"
    /\ StopSqlThreads(call.active_subordinates)
    /\ IF SomeDown(call.active_subordinates)
       THEN /\ call' = [call EXCEPT !.error = TRUE]
            /\ pc' = "t_unlock"
       ELSE /\ pc' = "t_until"
            /\ UNCHANGED call
    /\ UNCHANGED <<new_main, idx, ret, snap, runs, ops, faults>>
    /\ UNCHANGED <<up, upstream, executed, retrieved, read_only, locked>>
    /\ UNCHANGED topoVars

\* lines 803-805, second call of _sync_subordinates
TableUntil ==
    /\ pc = "t_until"
    /\ StartUntil(call.active_subordinates)
    /\ IF SomeDown(call.active_subordinates)
       THEN /\ call' = [call EXCEPT !.error = TRUE]
            /\ pc' = "t_unlock"
       ELSE /\ pc' = "t_sum"
            /\ UNCHANGED call
    /\ UNCHANGED <<new_main, idx, ret, snap, runs, ops, faults>>
    /\ UNCHANGED <<up, upstream, executed, retrieved, read_only, locked>>
    /\ UNCHANGED topoVars

\* lines 807-819: the checksum of the table on the main; timeout: the
\* statement ran longer than checksum_timeout
TableSum(timeout) ==
    /\ pc = "t_sum"
    /\ pc' = "t_unlock"
    /\ call' = IF ~up[main] THEN [call EXCEPT !.error = TRUE]
               ELSE [call EXCEPT !.success = ~timeout]
    /\ UNCHANGED <<new_main, idx, ret, snap, hist, runs, ops, faults>>
    /\ UNCHANGED worldVars
    /\ UNCHANGED topoVars

\* the finally clause left out
TableUnlockSkipped ==
    /\ pc = "t_unlock"
    /\ UNCHANGED locked
    /\ IF call.error \/ ~up[main]
       THEN TableRaise
       ELSE pc' = "t_notsync" /\ UNCHANGED ret
    /\ UNCHANGED <<call, new_main, idx, snap, hist, runs, ops, faults>>
    /\ UNCHANGED <<cfg, up, upstream, running, executed, retrieved, read_only>>
    /\ UNCHANGED topoVars

\* lines 820-822: the finally clause sends UNLOCK TABLES, and the exception
\* of the try block, or the one of UNLOCK TABLES, leaves the method
TableUnlock ==
    /\ pc = "t_unlock"
    /\ locked' = IF up[main] THEN [locked EXCEPT ![main] = FALSE] ELSE locked
    /\ IF call.error \/ ~up[main]
       THEN TableRaise
       ELSE pc' = "t_notsync" /\ UNCHANGED ret
    /\ UNCHANGED <<call, new_main, idx, snap, hist, runs, ops, faults>>
    /\ UNCHANGED <<cfg, up, upstream, running, executed, retrieved, read_only>>
    /\ UNCHANGED topoVars

\* lines 823-829, without a main: the SQL threads of the active
\* subordinates are stopped
NoMainStop ==
    /\ pc = "n_stop"
    /\ StopSqlThreads(call.active_subordinates)
    /\ pc' = IF SomeDown(call.active_subordinates) THEN "n_except" ELSE "n_point"
    /\ UNCHANGED <<call, new_main, idx, ret, snap, runs, ops, faults>>
    /\ UNCHANGED <<up, upstream, executed, retrieved, read_only, locked>>
    /\ UNCHANGED topoVars

\* lines 831-833 and 662-683: the sync point is the union of the
\* GTID_EXECUTED sets of the active subordinates
NoMainPoint ==
    /\ pc = "n_point"
    /\ pc' = IF SomeDown(call.active_subordinates) THEN "n_except" ELSE "n_stop2"
    /\ UNCHANGED <<call, new_main, idx, ret, snap, hist, runs, ops, faults>>
    /\ UNCHANGED worldVars
    /\ UNCHANGED topoVars

\* lines 835-836, first call of _sync_subordinates
NoMainStopAgain ==
    /\ pc = "n_stop2"
    /\ StopSqlThreads(call.active_subordinates)
    /\ pc' = IF SomeDown(call.active_subordinates) THEN "n_except" ELSE "n_until"
    /\ UNCHANGED <<call, new_main, idx, ret, snap, runs, ops, faults>>
    /\ UNCHANGED <<up, upstream, executed, retrieved, read_only, locked>>
    /\ UNCHANGED topoVars

\* lines 835-836, second call of _sync_subordinates
NoMainUntil ==
    /\ pc = "n_until"
    /\ StartUntil(call.active_subordinates)
    /\ pc' = IF SomeDown(call.active_subordinates) THEN "n_except" ELSE "t_notsync"
    /\ UNCHANGED <<call, new_main, idx, ret, snap, runs, ops, faults>>
    /\ UNCHANGED <<up, upstream, executed, retrieved, read_only, locked>>
    /\ UNCHANGED topoVars

\* lines 838-842: the handler of UtilError asks _apply_for_all_subordinates
\* for the method 'star_sql_thread'; getattr (line 436) raises
\* AttributeError for the first subordinate of the non-empty list
NoMainExcept ==
    /\ pc = "n_except"
    /\ TableRaise
    /\ UNCHANGED <<call, new_main, idx, snap, hist, runs, ops, faults>>
    /\ UNCHANGED worldVars
    /\ UNCHANGED topoVars

\* _checksum_and_resume_rpl, lines 727-734: checksum_table on every
\* subordinate that was not active; lines 735-743 then start
\* wait_checksum_and_start on every active one
TableNotSync ==
    /\ pc = "t_notsync"
    /\ hist' = [s \in Srv |->
                  IF s \in Answering(call.not_active_subordinates)
                  THEN [hist[s] EXCEPT !.sum = "value", !.sql_at_sum = running[s]]
                  ELSE hist[s]]
    /\ IF SomeDown(call.not_active_subordinates)
       THEN TableRaise /\ UNCHANGED call
       ELSE /\ call' = [call EXCEPT !.worker =
                          [s \in Srv |->
                              IF s \in Range(call.active_subordinates)
                              THEN [at |-> "loop", tick |-> 0,
                                    skip_checksum |-> call.rpl_timeout > 0]
                              ELSE NoWorker]]
            /\ pc' = "t_wait"
            /\ UNCHANGED ret
    /\ UNCHANGED <<new_main, idx, snap, runs, ops, faults>>
    /\ UNCHANGED worldVars
    /\ UNCHANGED topoVars

\* Subordinate.wait_checksum_and_start, lines 1744-1761: one evaluation of
\* the while condition and one pass of the loop body
WaitLoop(s) ==
    /\ pc = "t_wait"
    /\ call.worker[s].at = "loop"
    /\ LET w == call.worker[s]
       IN  IF ~(w.tick < call.rpl_timeout)
           THEN /\ call' = [call EXCEPT !.worker[s].at = "after"]
                /\ UNCHANGED hist
           ELSE IF ~up[s]
           THEN /\ call' = [call EXCEPT !.worker[s].at = "failed"]
                /\ UNCHANGED hist
           ELSE IF running[s]
           THEN /\ call' = [call EXCEPT !.worker[s].tick = @ + call.interval]
                /\ UNCHANGED hist
           ELSE /\ call' = [call EXCEPT !.worker[s].skip_checksum = FALSE,
                                        !.worker[s].at = "after"]
                /\ hist' = [hist EXCEPT ![s].observed = TRUE]
    /\ UNCHANGED <<pc, new_main, idx, ret, snap, runs, ops, faults>>
    /\ UNCHANGED worldVars
    /\ UNCHANGED topoVars

\* the SQL thread is not started again
WaitAfterNoStart(s) ==
    /\ pc = "t_wait"
    /\ call.worker[s].at = "after"
    /\ IF ~up[s]
       THEN /\ call' = [call EXCEPT !.worker[s].at = "failed"]
            /\ UNCHANGED <<hist, running, cfg>>
       ELSE /\ call' = [call EXCEPT !.worker[s].at = "end"]
            /\ hist' = [hist EXCEPT
                  ![s].sum = IF call.worker[s].skip_checksum THEN "timeout" ELSE "value",
                  ![s].sql_at_sum = running[s]]
            /\ UNCHANGED <<running, cfg>>
    /\ UNCHANGED <<pc, new_main, idx, ret, snap, runs, ops, faults>>
    /\ UNCHANGED <<up, upstream, executed, retrieved, read_only, locked>>
    /\ UNCHANGED topoVars

\* Subordinate.wait_checksum_and_start, lines 1763-1777: the checksum is
\* skipped and the SQL thread stopped, or the checksum is computed; then
\* START SLAVE SQL_THREAD
WaitAfter(s) ==
    /\ pc = "t_wait"
    /\ call.worker[s].at = "after"
    /\ IF ~up[s]
       THEN /\ call' = [call EXCEPT !.worker[s].at = "failed"]
            /\ UNCHANGED <<hist, running, cfg>>
       ELSE /\ call' = [call EXCEPT !.worker[s].at = "end"]
            /\ hist' = [hist EXCEPT
                  ![s].sum = IF call.worker[s].skip_checksum THEN "timeout" ELSE "value",
                  ![s].sql_at_sum = running[s],
                  ![s].restarted = TRUE]
            /\ running' = [running EXCEPT ![s] = TRUE]
            /\ cfg' = [cfg EXCEPT ![s].until = FALSE]
    /\ UNCHANGED <<pc, new_main, idx, ret, snap, runs, ops, faults>>
    /\ UNCHANGED <<up, upstream, executed, retrieved, read_only, locked>>
    /\ UNCHANGED topoVars

\* rpl_sync.py lines 438-446: the pool is joined and the results are read;
\* the exception of a worker is raised again
TableJoin ==
    /\ pc = "t_wait"
    /\ \A s \in Srv : call.worker[s].at \in {"none", "end", "failed"}
    /\ IF \E s \in Srv : call.worker[s].at = "failed"
       THEN TableRaise
       ELSE pc' = "t_compare" /\ UNCHANGED ret
    /\ UNCHANGED <<call, new_main, idx, snap, hist, runs, ops, faults>>
    /\ UNCHANGED worldVars
    /\ UNCHANGED topoVars

\* lines 848-883: the checksums are compared and the number of differences
\* is returned
TableCompare ==
    /\ pc = "t_compare"
    /\ pc' = "done"
    /\ ret' = [kind |-> "value", val |-> NoSrv]
    /\ UNCHANGED <<call, new_main, idx, snap, hist, runs, ops, faults>>
    /\ UNCHANGED worldVars
    /\ UNCHANGED topoVars

NextTable ==
    \/ \E t \in 0..MaxRplTimeout, i \in 1..MaxInterval : CallCheckTableDataSync(t, i)
    \/ TableLock
    \/ TablePoint
    \/ TableStop
    \/ TableUntil
    \/ \E timeout \in BOOLEAN : TableSum(timeout)
    \/ TableUnlock
    \/ NoMainStop
    \/ NoMainPoint
    \/ NoMainStopAgain
    \/ NoMainUntil
    \/ NoMainExcept
    \/ TableNotSync
    \/ \E s \in Srv \ {1} : WaitLoop(s)
    \/ \E s \in Srv \ {1} : WaitAfter(s)
    \/ TableJoin
    \/ TableCompare
    \/ \E s \in Srv \ {1} : ReachSyncPoint(s)
    \/ \E s \in Srv : ServerDown(s)

SpecTable == InitTable /\ [][NextTable]_vars

\* the session of the main holds the lock on the table (a session that
\* ended with its server holds none)
TableLocked == main # NoSrv /\ up[main] /\ locked[main]

\* C33: with a main, the sync point is computed and the active subordinates
\* are told to stop at it while the main holds the READ lock on the table,
\* and the lock is released when that part is left, by its end or by an
\* exception
C33_SyncUnderLockThenReleased ==
    (call.op = "check_table_data_sync" /\ main # NoSrv) =>
        /\ pc \in {"t_point", "t_stop", "t_until", "t_sum"} => locked[main]
        /\ pc \in {"t_notsync", "t_wait", "t_compare", "done", "aborted"}
              => ~TableLocked

\* an exception left the locked part after the active subordinates were
\* stopped, the main still answering, and the lock is released
C33_Witness ==
    /\ call.op = "check_table_data_sync"
    /\ main # NoSrv /\ up[main]
    /\ pc = "aborted"
    /\ call.error
    /\ \E s \in Srv : hist[s].stopped
    /\ ~locked[main]

\* the locked part ended without exception, with active subordinates told to
\* stop at the sync point
C33_NormalWitness ==
    /\ call.op = "check_table_data_sync"
    /\ main # NoSrv
    /\ pc = "t_notsync"
    /\ \E s \in Srv : hist[s].until
    /\ ~locked[main]

\* the worker of wait_checksum_and_start on s returned
WorkerEnded(s) == call.worker[s].at = "end"

\* C34: the checksum of a subordinate that was active is computed only after
\* its SQL thread was seen stopped; when it is not seen stopped within
\* rpl_timeout the checksum is skipped as a timeout; in both cases the SQL
\* thread is started again; a subordinate that was not active is
\* checksummed without a wait
C34_ChecksumAfterStopThenRestart ==
    \A s \in Srv \ {1} :
        /\ WorkerEnded(s) =>
              /\ hist[s].sum = "value" => (hist[s].observed /\ ~hist[s].sql_at_sum)
              /\ ~hist[s].observed => hist[s].sum = "timeout"
              /\ hist[s].restarted /\ running[s] /\ ~cfg[s].until
        /\ (call.worker[s].at = "none" /\ hist[s].sum # "none") =>
              (hist[s].sum = "value" /\ ~hist[s].observed /\ call.worker[s].tick = 0)

\* the same for a positive rpl_timeout
C34_ChecksumAfterStopWithTimeout ==
    call.rpl_timeout > 0 =>
        \A s \in Srv \ {1} :
            /\ WorkerEnded(s) =>
                  /\ hist[s].sum = "value" => (hist[s].observed /\ ~hist[s].sql_at_sum)
                  /\ ~hist[s].observed => hist[s].sum = "timeout"
                  /\ hist[s].restarted /\ running[s] /\ ~cfg[s].until
            /\ (call.worker[s].at = "none" /\ hist[s].sum # "none") =>
                  (hist[s].sum = "value" /\ ~hist[s].observed /\ call.worker[s].tick = 0)

\* with rpl_timeout = 0 the SQL thread is started again all the same
C34_RestartedWithoutTimeout ==
    \A s \in Srv \ {1} :
        WorkerEnded(s) => (hist[s].restarted /\ running[s] /\ ~cfg[s].until)

\* C35: when an exception ends _check_table_data_sync, the lock on the main
\* is released and the SQL thread of every subordinate that was stopped for
\* the synchronization runs again, unrestricted
C35_ErrorRestoresActivity ==
    (call.op = "check_table_data_sync" /\ pc = "aborted") =>
        /\ ~TableLocked
        /\ \A s \in Srv \ {1} :
              (hist[s].stopped /\ up[s]) => (running[s] /\ ~cfg[s].until)

\* the lock half of C35
C35_ErrorReleasesLock ==
    (call.op = "check_table_data_sync" /\ pc = "aborted") => ~TableLocked

\* ------------------------------------------- ReplicationMultiSource.run
\* the subordinate is server NumServers, the mains are taken from the other
\* servers; main is the main of self.topology, call.elapsed the time spent
\* in the current time slice
MaxMains == 3
MaxSwitchoverInterval == 2

MsSubordinate == NumServers

MainsLists == {q \in SeqsOver(Srv \ {MsSubordinate}, MaxMains) : q # <<>>}

InitMultiSource ==
    /\ main = NoSrv
    /\ cfg = [s \in Srv |-> [gtid |-> TRUE]]
    /\ up = [s \in Srv |-> TRUE]
    /\ upstream = [s \in Srv |-> NoSrv]
    /\ running = [s \in Srv |-> FALSE]
    /\ executed = [s \in Srv |-> {}]
    /\ retrieved = [s \in Srv |-> {}]
    /\ read_only = [s \in Srv |-> FALSE]
    /\ locked = [s \in Srv |-> FALSE]
    /\ subordinates = <<SubordinateDict(MsSubordinate, TRUE, FALSE)>>
    /\ options = [force |-> FALSE, demote |-> FALSE, pedantic |-> FALSE, rpl_user |-> FALSE]
    /\ pc = "idle"
    /\ call = [op |-> "none", mains_vals |-> <<>>, idx |-> 0, use_rpl_setup |-> TRUE,
               switchover_interval |-> 0, interval |-> 1, elapsed |-> 0]
    /\ new_main = BestNone
    /\ idx = 0
    /\ ret = NoRet
    /\ snap = NoSnapshot
    /\ hist = [count |-> 0, last |-> 0, method |-> "none"]
    /\ runs = 0
    /\ ops = 0
    /\ faults = 0

\* lines 634-639: num_mains, use_rpl_setup = True, the first pass of for
RunMultiSource(mains_vals, switchover_interval, interval) ==
    /\ pc = "idle"
    /\ runs < MaxRuns
    /\ runs' = runs + 1
    /\ pc' = "m_switch"
    /\ call' = [op |-> "run", mains_vals |-> mains_vals, idx |-> 1,
                use_rpl_setup |-> TRUE,
                switchover_interval |-> switchover_interval,
                interval |-> interval, elapsed |-> 0]
    /\ UNCHANGED <<new_main, idx, ret, snap, hist, ops, faults>>
    /\ UNCHANGED worldVars
    /\ UNCHANGED topoVars

\* every switch is done with Replication.setup
SetupMethodAlways(use_rpl_setup) == "setup"

\* _setup_replication, lines 329-364: Replication.setup, or switch_main and
\* start on the subordinate
SetupMethod(use_rpl_setup) == IF use_rpl_setup THEN "setup" ELSE "switch"

\* lines 641-655 and _switch_main, _setup_replication: the subordinate is
\* stopped, replication is set up with mains_vals[idx], and the time slice
\* starts; a server that does not answer, or one without GTID_MODE=ON, ends
\* the run with UtilRplError
SwitchMain ==
    /\ pc = "m_switch"
    /\ LET m == call.mains_vals[call.idx]
       IN  IF ~up[MsSubordinate] \/ ~up[m] \/ ~cfg[m].gtid
           THEN /\ pc' = "aborted"
                /\ ret' = [kind |-> "raise", val |-> NoSrv]
                /\ UNCHANGED <<main, upstream, running, call, hist>>
           ELSE /\ pc' = "m_slice"
                /\ main' = m
                /\ upstream' = [upstream EXCEPT ![MsSubordinate] = m]
                /\ running' = [running EXCEPT ![MsSubordinate] = TRUE]
                /\ call' = [call EXCEPT !.elapsed = 0]
                /\ hist' = [count |-> IF hist.count <= Len(call.mains_vals)
                                      THEN hist.count + 1 ELSE hist.count,
                            last |-> call.idx,
                            method |-> SetupMethod(call.use_rpl_setup)]
                /\ UNCHANGED ret
    /\ UNCHANGED <<new_main, idx, snap, runs, ops, faults>>
    /\ UNCHANGED <<cfg, up, executed, retrieved, read_only, locked>>
    /\ UNCHANGED <<subordinates, options>>

\* lines 657-700: one evaluation of the condition of the time slice loop
\* and one pass of its body, which reconnects, reports and sleeps interval
TimeSlice ==
    /\ pc = "m_slice"
    /\ call.elapsed < call.switchover_interval
    /\ IF ~up[main] \/ ~up[MsSubordinate]
       THEN /\ pc' = "aborted"
            /\ ret' = [kind |-> "raise", val |-> NoSrv]
            /\ UNCHANGED call
       ELSE /\ call' = [call EXCEPT !.elapsed = @ + call.interval]
            /\ UNCHANGED <<pc, ret>>
    /\ UNCHANGED <<new_main, idx, snap, hist, runs, ops, faults>>
    /\ UNCHANGED worldVars
    /\ UNCHANGED topoVars

\* lines 639-640 and 702-703: the time slice is over; the for loop takes
\* the next main, or ends, use_rpl_setup is cleared and the for loop starts
\* again
NextMain ==
    /\ pc = "m_slice"
    /\ ~(call.elapsed < call.switchover_interval)
    /\ pc' = "m_switch"
    /\ call' = IF call.idx < Len(call.mains_vals)
               THEN [call EXCEPT !.idx = @ + 1]
               ELSE [call EXCEPT !.idx = 1, !.use_rpl_setup = FALSE]
    /\ UNCHANGED <<new_main, idx, ret, snap, hist, runs, ops, faults>>
    /\ UNCHANGED worldVars
    /\ UNCHANGED topoVars

NextMultiSource ==
    \/ \E q \in MainsLists, t \in 0..MaxSwitchoverInterval, i \in 1..MaxInterval :
          RunMultiSource(q, t, i)
    \/ SwitchMain
    \/ TimeSlice
    \/ NextMain
    \/ \E s \in Srv : ServerDown(s)

\* the loop of run is not preempted for ever
SpecMultiSource ==
    /\ InitMultiSource
    /\ [][NextMultiSource]_vars
    /\ WF_vars(SwitchMain)
    /\ WF_vars(TimeSlice)
    /\ WF_vars(NextMain)

\* this step switches the subordinate to a main
Switched == pc = "m_switch" /\ pc' = "m_slice"

\* the position after i in the cyclic order of the list
CyclicNext(i) == (i % Len(call.mains_vals)) + 1

\* the run is at the main m of its list, just switched to
AtMain(m) == pc = "m_slice" /\ main = m /\ call.elapsed = 0

\* C36: the subordinate is switched to the mains in list order, cyclically;
\* the first Len(mains_vals) switches use Replication.setup and every later
\* one switch_main and start; and unless an error ends the run, every main
\* of the list is switched to again and again
C36_RoundRobin ==
    /\ [][Switched =>
            /\ hist'.last = CyclicNext(hist.last)
            /\ main' = call.mains_vals[hist'.last]
            /\ upstream'[MsSubordinate] = main'
            /\ hist'.method = IF hist.count < Len(call.mains_vals)
                              THEN "setup" ELSE "switch"]_vars
    /\ \A m \in Srv \ {MsSubordinate} :
          []((call.op = "run" /\ m \in Range(call.mains_vals) /\ pc # "aborted")
                => <>(AtMain(m) \/ pc = "aborted"))

\* the second round has begun: the first main of a list of several is
\* switched to again, without Replication.setup
C36_Witness ==
    /\ pc = "m_slice"
    /\ Len(call.mains_vals) > 1
    /\ main = call.mains_vals[1]
    /\ hist.count > Len(call.mains_vals)
    /\ hist.method = "switch"

\* ------------------------------------------- RplCommands.run_auto_failover
\* the monitoring loop: call.conn is the state of the connection of
\* topology.main (is_alive is conn and the server answering), call.failover
\* and call.i are the variables failover and i of the method; hist keeps,
\* for the current pass of the loop, what the pass has seen
FailoverModes == {"auto", "elect", "fail"}

ReconnectAttempts == 3

NoPass == [down_found |-> FALSE, failed_attempts |-> 0, script_failed |-> FALSE,
           reconnected |-> FALSE, strict |-> FALSE]

InitAuto ==
    /\ main \in {1, NoSrv}
    /\ cfg = [s \in Srv |-> [gtid |-> TRUE]]
    /\ up = [s \in Srv |-> TRUE]
    /\ upstream = [s \in Srv |-> IF s = 1 THEN NoSrv ELSE 1]
    /\ running = [s \in Srv |-> s # 1]
    /\ executed = [s \in Srv |-> MainGtids]
    /\ retrieved = [s \in Srv |-> IF s = 1 THEN {} ELSE MainGtids]
    /\ read_only = [s \in Srv |-> FALSE]
    /\ locked = [s \in Srv |-> FALSE]
    /\ subordinates = InitSubordinates({})
    /\ options = [force |-> FALSE, demote |-> FALSE, pedantic |-> FALSE, rpl_user |-> FALSE]
    /\ pc = "idle"
    /\ call = [op |-> "none", mode |-> "auto", exec_fail |-> FALSE,
               fail_retry |-> FALSE, conn |-> main # NoSrv, failover |-> FALSE,
               i |-> 0]
    /\ new_main = BestNone
    /\ idx = 0
    /\ ret = NoRet
    /\ snap = NoSnapshot
    /\ hist = NoPass
    /\ runs = 0
    /\ ops = 0
    /\ faults = 0

\* topology.main.is_alive()
MainIsAlive == main # NoSrv /\ call.conn /\ up[main]

\* topology.main.connect() returns; it raises when there is no main or the
\* server does not answer
ConnectSucceeds == main # NoSrv /\ up[main]

\* the main stops answering; its connections are lost
MainGoesDown ==
    /\ pc \notin {"idle", "done", "aborted"}
    /\ main # NoSrv /\ up[main]
    /\ up' = [up EXCEPT ![main] = FALSE]
    /\ call' = [call EXCEPT !.conn = FALSE]
    /\ UNCHANGED <<cfg, upstream, running, executed, retrieved, read_only, locked>>
    /\ UNCHANGED topoVars
    /\ UNCHANGED <<pc, new_main, idx, ret, snap, hist, runs, ops, faults>>

\* the main answers again
MainComesBack ==
    /\ pc \notin {"idle", "done", "aborted"}
    /\ main # NoSrv /\ ~up[main]
    /\ up' = [up EXCEPT ![main] = TRUE]
    /\ UNCHANGED <<cfg, upstream, running, executed, retrieved, read_only, locked>>
    /\ UNCHANGED topoVars
    /\ UNCHANGED runVars

\* lines 792-857: the options are read and the checks before the loop pass
RunAutoFailover(mode, exec_fail, fail_retry) ==
    /\ pc = "idle"
    /\ runs < MaxRuns
    /\ runs' = runs + 1
    /\ pc' = "a_check"
    /\ call' = [call EXCEPT !.op = "run_auto_failover", !.mode = mode,
                            !.exec_fail = exec_fail, !.fail_retry = fail_retry]
    /\ UNCHANGED <<new_main, idx, ret, snap, hist, ops, faults>>
    /\ UNCHANGED worldVars
    /\ UNCHANGED topoVars

\* lines 862-898 with a failover check script (exit: its exit code), lines
\* 900-921 without: a main that is not alive is waited for and connected to
\* again, once, and once more when fail_retry is given
AutoCheck(exit) ==
    /\ pc = "a_check"
    /\ hist' = IF call.exec_fail THEN [NoPass EXCEPT !.script_failed = exit # 0]
               ELSE NoPass
    /\ IF call.exec_fail
       THEN /\ call' = [call EXCEPT !.failover = @ \/ exit # 0]
            /\ pc' = "a_decide"
            /\ UNCHANGED ret
       ELSE IF main = NoSrv /\ call.fail_retry
       THEN /\ pc' = "aborted"
            /\ ret' = [kind |-> "raise", val |-> NoSrv]
            /\ UNCHANGED call
       ELSE /\ call' = [call EXCEPT !.conn = @ \/ ConnectSucceeds]
            /\ pc' = "a_detect"
            /\ UNCHANGED ret
    /\ UNCHANGED <<new_main, idx, snap, runs, ops, faults>>
    /\ UNCHANGED worldVars
    /\ UNCHANGED topoVars

\* lines 927-931: no main, or ping_host fails (pingable: it succeeds), or
\* the main is not alive
AutoDetect(pingable) ==
    /\ pc = "a_detect"
    /\ IF main = NoSrv \/ ~pingable \/ ~MainIsAlive
       THEN /\ call' = [call EXCEPT !.failover = TRUE, !.i = 0]
            /\ hist' = [hist EXCEPT !.down_found = TRUE]
            /\ pc' = "a_retry"
       ELSE /\ pc' = "a_decide"
            /\ UNCHANGED <<call, hist>>
    /\ UNCHANGED <<new_main, idx, ret, snap, runs, ops, faults>>
    /\ UNCHANGED worldVars
    /\ UNCHANGED topoVars

\* the loop gives up after the first attempt
AutoRetryOnce ==
    /\ pc = "a_retry"
    /\ IF ~(call.i < 1)
       THEN pc' = "a_decide" /\ UNCHANGED <<call, hist>>
       ELSE IF ConnectSucceeds
       THEN /\ call' = [call EXCEPT !.conn = TRUE, !.failover = FALSE]
            /\ hist' = [hist EXCEPT !.reconnected = TRUE]
            /\ pc' = "a_decide"
       ELSE /\ call' = [call EXCEPT !.i = @ + 1]
            /\ hist' = [hist EXCEPT !.failed_attempts = @ + 1]
            /\ UNCHANGED pc
    /\ UNCHANGED <<new_main, idx, ret, snap, runs, ops, faults>>
    /\ UNCHANGED worldVars
    /\ UNCHANGED topoVars

\* lines 932-940: one evaluation of "i < 3" and one pass of the body
AutoRetry ==
    /\ pc = "a_retry"
    /\ IF ~(call.i < ReconnectAttempts)
       THEN pc' = "a_decide" /\ UNCHANGED <<call, hist>>
       ELSE IF ConnectSucceeds
       THEN /\ call' = [call EXCEPT !.conn = TRUE, !.failover = FALSE]
            /\ hist' = [hist EXCEPT !.reconnected = TRUE]
            /\ pc' = "a_decide"
       ELSE /\ call' = [call EXCEPT !.i = @ + 1]
            /\ hist' = [hist EXCEPT !.failed_attempts = @ + 1]
            /\ UNCHANGED pc
    /\ UNCHANGED <<new_main, idx, ret, snap, runs, ops, faults>>
    /\ UNCHANGED worldVars
    /\ UNCHANGED topoVars

\* lines 949-970: with failover set, Topology.failover is called in mode
\* 'auto' (strict False) or 'elect' (strict True); any other mode raises
AutoDecide ==
    /\ pc = "a_decide"
    /\ IF ~call.failover
       THEN pc' = "a_console" /\ UNCHANGED <<call, hist, ret>>
       ELSE IF call.mode \in {"auto", "elect"}
       THEN /\ pc' = "a_failover"
            /\ call' = [call EXCEPT !.conn = FALSE]
            /\ hist' = [hist EXCEPT !.strict = call.mode = "elect"]
            /\ UNCHANGED ret
       ELSE /\ pc' = "aborted"
            /\ ret' = [kind |-> "raise", val |-> NoSrv]
            /\ call' = [call EXCEPT !.conn = FALSE]
            /\ UNCHANGED hist
    /\ UNCHANGED <<new_main, idx, snap, runs, ops, faults>>
    /\ UNCHANGED worldVars
    /\ UNCHANGED topoVars

\* lines 971-1002: Topology.failover returned; False raises, True makes
\* the elected server m the main, and register_instance gives the mode
AutoFailoverReturns(res, m, mode) ==
    /\ pc = "a_failover"
    /\ IF ~res
       THEN /\ pc' = "aborted"
            /\ ret' = [kind |-> "raise", val |-> NoSrv]
            /\ UNCHANGED <<main, call>>
       ELSE /\ m # main /\ up[m]
            /\ main' = m
            /\ call' = [call EXCEPT !.conn = TRUE, !.failover = FALSE, !.mode = mode]
            /\ pc' = "a_console"
            /\ UNCHANGED ret
    /\ UNCHANGED <<new_main, idx, snap, hist, runs, ops, faults>>
    /\ UNCHANGED worldVars
    /\ UNCHANGED <<subordinates, options>>

\* lines 1044-1049: display_console returns None after the interval, or
\* the user has quit
AutoConsole(quit) ==
    /\ pc = "a_console"
    /\ IF quit
       THEN pc' = "done" /\ ret' = [kind |-> "true", val |-> NoSrv]
       ELSE pc' = "a_check" /\ UNCHANGED ret
    /\ UNCHANGED <<call, new_main, idx, snap, hist, runs, ops, faults>>
    /\ UNCHANGED worldVars
    /\ UNCHANGED topoVars

NextAuto ==
    \/ \E mode \in FailoverModes, exec_fail \in BOOLEAN, fail_retry \in BOOLEAN :
          RunAutoFailover(mode, exec_fail, fail_retry)
    \/ \E exit \in 0..1 : AutoCheck(exit)
    \/ \E pingable \in BOOLEAN : AutoDetect(pingable)
    \/ AutoRetry
    \/ AutoDecide
    \/ \E res \in BOOLEAN, m \in Srv, mode \in FailoverModes :
          AutoFailoverReturns(res, m, mode)
    \/ \E quit \in BOOLEAN : AutoConsole(quit)
    \/ MainGoesDown
    \/ MainComesBack

SpecAuto == InitAuto /\ [][NextAuto]_vars

\* C37: Topology.failover is called only in a pass whose check script
\* failed, or that found the main down and failed to reconnect three times,
\* and only in mode 'auto' or 'elect', strict in 'elect' alone; in another
\* mode a pass that is to fail over raises and calls nothing; a pass that
\* reconnected goes on monitoring
C37_FailoverOnlyWhenConfirmedDown ==
    [][/\ (pc' = "a_failover" /\ pc # "a_failover") =>
            /\ \/ hist.script_failed
               \/ hist.down_found /\ hist.failed_attempts = 3 /\ ~hist.reconnected
            /\ call.mode \in {"auto", "elect"}
            /\ hist'.strict = (call.mode = "elect")
       /\ (pc = "a_decide" /\ pc' # pc /\ call.mode = "fail"
             /\ (hist.script_failed \/ (hist.down_found /\ ~hist.reconnected)))
             => pc' = "aborted"
       /\ (pc = "a_decide" /\ pc' # pc /\ hist.reconnected) => pc' = "a_console"]_vars

\* failover is being called after three failed attempts to reconnect, in
\* mode 'elect'
C37_Witness ==
    /\ pc = "a_failover"
    /\ call.mode = "elect"
    /\ hist.down_found
    /\ hist.failed_attempts = 3
    /\ hist.strict

\* a pass reconnected after a failed attempt and monitoring goes on
C37_ResumeWitness ==
    /\ pc = "a_console"
    /\ hist.reconnected
    /\ hist.failed_attempts > 0

\* ------------------------------------------------- the fence after a run
\* a switchover or a failover has ended, by its end or by an abort
RunEnded == pc \in {"done", "aborted"} /\ call.op \in {"switchover", "failover"}

\* C38: when a switchover or a failover has ended, completed or aborted, no
\* server that answers is read-only or holds the flush lock
C38_NoFenceLeftBehind ==
    RunEnded => \A s \in Srv : up[s] => (~read_only[s] /\ ~locked[s])

\* the same for the runs that completed
C38_NoFenceAfterCompletion ==
    (RunEnded /\ pc = "done") => \A s \in Srv : up[s] => (~read_only[s] /\ ~locked[s])

\* the same for failover
C38_NoFenceAfterFailover ==
    (RunEnded /\ call.op = "failover") =>
        \A s \in Srv : up[s] => (~read_only[s] /\ ~locked[s])

\* ------------------------------------------------------ termination of a run
\* one step of a switchover or a failover in progress: the utility runs the
\* protocol in one thread, each step following the return of the one before
RunStep ==
    \/ \E mismatch \in BOOLEAN : SwitchoverPrerequisites(mismatch)
    \/ \E failed \in BOOLEAN : SwitchoverBefore(failed)
    \/ SwitchoverFence
    \/ \E caught \in BOOLEAN : SwitchoverWait(caught)
    \/ SwitchoverWaitDone
    \/ SwitchoverStop
    \/ SwitchoverUnfence
    \/ SwitchoverDemote
    \/ SwitchoverSwap
    \/ \E forgets \in BOOLEAN : SwitchoverReset(forgets)
    \/ SwitchoverSwitch
    \/ SwitchoverStart
    \/ \E failed \in BOOLEAN : SwitchoverAfter(failed)
    \/ SwitchoverVerify
    \/ FailoverFind
    \/ \E drained \in BOOLEAN : FailoverPrepare(drained)
    \/ FailoverPrepareSwitch
    \/ \E caught \in BOOLEAN : FailoverPrepareWait(caught)
    \/ FailoverPrepared
    \/ FailoverSwap
    \/ \E failed \in BOOLEAN : FailoverBefore(failed)
    \/ FailoverStop
    \/ FailoverRemove
    \/ FailoverSwitch
    \/ FailoverReset
    \/ FailoverStart
    \/ \E failed \in BOOLEAN : FailoverAfter(failed)
    \/ FailoverVerify

\* the protocols under the assumption that each remote call returns
SpecLive == Init /\ [][Next]_vars /\ WF_vars(RunStep)

\* a switchover or a failover is in progress
RunInProgress == ~Quiescent /\ call.op \in {"switchover", "failover"}

\* C39: every switchover and failover run terminates, at its completion or
\* at an abort, provided each remote call returns
C39_RunTerminates == RunInProgress ~> (pc \in {"done", "aborted"})

\* a run in the loop of the catch-up waits, past its first subordinate
C39_Witness ==
    /\ pc = "s_wait"
    /\ idx > 1
    /\ Len(subordinates) >= 2

\* a failover in the loop that prepares the candidate, past its first subordinate
C39_FailoverWitness ==
    /\ pc \in {"f_prep", "f_prep_switch", "f_prep_wait"}
    /\ idx > 1

\* ------------------------------------------- rows after an empty host name
\* the row r of this call of discover_subordinates has a host name, answers
\* and is configured for the main
AdmissibleRow(r) ==
    /\ r \in Range(call'.candidates)
    /\ r # call'.candidate
    /\ up[r]
    /\ IsConfiguredForMain(r, main)

\* C40: an advertised row with an empty host name does not prevent the
\* discovery of the others: every advertised server with a host name that is
\* configured for this main is returned by get_subordinates, whatever its
\* position in the advertised list
C40_EmptyHostDoesNotHide ==
    [][(DiscoverStep /\ call'.candidate # NoSrv) =>
          \A r \in Srv :
              AdmissibleRow(r) =>
                  r \in Range(GetSubordinates(main, call'.candidates,
                                              call'.candidate))]_vars

\* the same for the rows sorted before the row with the empty host name
C40_RowsBeforeEmptyHostReturned ==
    [][(DiscoverStep /\ call'.candidate # NoSrv) =>
          \A r \in Srv :
              (AdmissibleRow(r) /\ r < call'.candidate) =>
                  r \in Range(GetSubordinates(main, call'.candidates,
                                              call'.candidate))]_vars

\* the same seen in the list: such a server whose IO thread runs has a
\* record after the call
C40_EmptyHostDoesNotHideRecord ==
    [][(DiscoverStep /\ call'.candidate # NoSrv) =>
          \A r \in Srv :
              (AdmissibleRow(r) /\ running[r]) => r \in Hosts(subordinates')]_vars
====
